---- MODULE Spec2Model ----
(***************************************************************************)
(* Vi key bindings of prompt_toolkit (key_binding/bindings/vi.py):         *)
(* TextObject range normalisation, the operator / text-object protocol and *)
(* the mode handlers, dispatched by the key processor.                     *)
(***************************************************************************)
EXTENDS Integers, Sequences, FiniteSets, TLC

VARIABLES
    text,               \* Buffer.text, a sequence of one-character strings
    cursor_position,    \* Buffer.cursor_position, 0-based offset into text
    read_only,          \* Buffer.read_only()
    selection_state,    \* Buffer.selection_state: None or [type, original_cursor_position]
    input_mode,         \* vi_state.input_mode
    operator_func,      \* vi_state.operator_func: None or the operator's key sequence
    operator_arg,       \* vi_state.operator_arg: None or <<count>>
    last_character_find, \* vi_state.last_character_find: None or [character, backwards]
    clipboard,          \* cli.clipboard data: [text, type]
    arg,                \* InputProcessor.arg: None or the string of digits typed so far
    key_buffer,         \* InputProcessor.key_buffer: keys received, not yet dispatched
    pc,                 \* position of the key processor loop: "idle" | "match" | "call"
    matched,            \* the binding about to be called: None or [binding, length]
    handled,            \* what the last handler call did: [bell, calls]
    before_operator,    \* history: the session as it was when the pending operator's key was dispatched
    text_object,        \* the TextObject handed to operator_range (range specification)
    range,              \* the pair operator_range returned (range specification)
    other_cli           \* the second CommandLineInterface, while the first has the keyboard (sessions specification)

vars == <<text, cursor_position, read_only, selection_state, input_mode,
          operator_func, operator_arg, last_character_find, clipboard, arg, key_buffer,
          pc, matched, handled, before_operator, text_object, range, other_cli>>

\* Python's None; an optional value is None or the value itself (a count: <<count>>).
None == <<>>
NL == "\n"

\* ------------------------------------------------------------------ bounds

\* Longest document of the range specification.
MaxLen == 4
\* Most digits of a count the digit keys may build up.
MaxDigits == 1
\* Longest text that typing in replace mode may build up.
MaxText == 3
\* Most digits of a count in the count specification.
MaxCountDigits == 2
\* Longest document of the bracket and percentage specification.
MaxPercentLen == 3
\* ------------------------------------------------------------- Python helpers

Min(a, b) == IF a < b THEN a ELSE b
Max(a, b) == IF a < b THEN b ELSE a

\* s[i:j] for 0 <= i, 0 <= j (0-based, j exclusive), clamped like a Python slice.
Slice(s, i, j) ==
    LET lo == Min(i, Len(s))
        hi == Min(j, Len(s))
    IN  IF hi <= lo THEN <<>> ELSE SubSeq(s, lo + 1, hi)

\* s[:count] for any integer count (a negative count drops from the end).
Prefix(s, count) ==
    IF count >= 0 THEN Slice(s, 0, count) ELSE Slice(s, 0, Max(0, Len(s) + count))

\* ------------------------------------------------------------------ Document

\* Number of newlines in t[:index].
NewlinesBefore(t, index) ==
    Cardinality({i \in 1..Min(Max(index, 0), Len(t)) : t[i] = NL})

\* Document.line_count: len(text.split('\n')).
line_count(t) == NewlinesBefore(t, Len(t)) + 1

\* Document._line_start_indexes[row]: offset of column 0 of line `row`.
line_start(t, row) ==
    IF row <= 0 THEN 0
    ELSE CHOOSE i \in 1..Len(t) : t[i] = NL /\ NewlinesBefore(t, i) = row

\* len(Document.lines[row]).
line_length(t, row) ==
    LET s == line_start(t, row)
        ends == {i \in (s + 1)..Len(t) : t[i] = NL}
    IN  IF ends = {} THEN Len(t) - s
        ELSE (CHOOSE i \in ends : \A j \in ends : i <= j) - 1 - s

\* Document.translate_index_to_position(index): <<row, col>>.
translate_index_to_position(t, index) ==
    LET row == NewlinesBefore(t, index)
    IN  <<row, index - line_start(t, row)>>

\* Document.translate_row_col_to_index(row, col).
translate_row_col_to_index(t, row, col) ==
    LET r == Max(0, Min(row, line_count(t) - 1))
        result == line_start(t, r) + Max(0, Min(col, line_length(t, r)))
    IN  Max(0, Min(result, Len(t)))

\* ---------------------------------------------------------------- TextObject

EXCLUSIVE == "EXCLUSIVE"
INCLUSIVE == "INCLUSIVE"
LINEWISE == "LINEWISE"
TextObjectType == {EXCLUSIVE, INCLUSIVE, LINEWISE}

CHARACTERS == "CHARACTERS"
LINES == "LINES"
BLOCK == "BLOCK"

\* TextObject(start, end=0, type=EXCLUSIVE).
TextObject(start, end, type) == [start |-> start, end |-> end, type |-> type]

\* TextObject.selection_type.
selection_type(obj) == IF obj.type = LINEWISE THEN LINES ELSE CHARACTERS

\* TextObject.sorted().
sorted(obj) ==
    IF obj.start < obj.end THEN <<obj.start, obj.end>> ELSE <<obj.end, obj.start>>

\* operator_range with the column-0 rule of exclusive motions left out.
operator_range_NoColumn0(obj, t, cursor) ==
    LET se == sorted(obj)
    IN  IF obj.type = LINEWISE
        THEN LET spos == translate_index_to_position(t, se[1] + cursor)
                 epos == translate_index_to_position(t, se[2] + cursor)
             IN  <<translate_row_col_to_index(t, spos[1], 0) - cursor,
                   translate_row_col_to_index(t, epos[1], line_length(t, epos[1])) - cursor>>
        ELSE <<se[1], IF obj.type = INCLUSIVE THEN se[2] + 1 ELSE se[2]>>

\* operator_range with the end of an inclusive motion not included.
operator_range_NoInclusive(obj, t, cursor) ==
    LET se == sorted(obj)
    IN  IF obj.type = LINEWISE
        THEN LET spos == translate_index_to_position(t, se[1] + cursor)
                 epos == translate_index_to_position(t, se[2] + cursor)
             IN  <<translate_row_col_to_index(t, spos[1], 0) - cursor,
                   translate_row_col_to_index(t, epos[1], line_length(t, epos[1])) - cursor>>
        ELSE <<se[1], IF obj.type = EXCLUSIVE
                         /\ translate_index_to_position(t, se[2] + cursor)[2] = 0
                      THEN se[2] - 1 ELSE se[2]>>

\* operator_range with the end of a linewise motion snapped to column 0 of its line.
operator_range_EndAtColumn0(obj, t, cursor) ==
    LET se == sorted(obj)
    IN  IF obj.type = LINEWISE
        THEN LET spos == translate_index_to_position(t, se[1] + cursor)
                 epos == translate_index_to_position(t, se[2] + cursor)
             IN  <<translate_row_col_to_index(t, spos[1], 0) - cursor,
                   translate_row_col_to_index(t, epos[1], 0) - cursor>>
        ELSE <<se[1], IF obj.type = INCLUSIVE THEN se[2] + 1
                      ELSE IF translate_index_to_position(t, se[2] + cursor)[2] = 0
                           THEN se[2] - 1 ELSE se[2]>>

\* operator_range with the column-0 rule applied whatever the type.
operator_range_Column0AnyType(obj, t, cursor) ==
    LET se == sorted(obj)
        end1 == IF translate_index_to_position(t, se[2] + cursor)[2] = 0
                THEN se[2] - 1 ELSE se[2]
    IN  IF obj.type = LINEWISE
        THEN LET spos == translate_index_to_position(t, se[1] + cursor)
                 epos == translate_index_to_position(t, se[2] + cursor)
             IN  <<translate_row_col_to_index(t, spos[1], 0) - cursor,
                   translate_row_col_to_index(t, epos[1], line_length(t, epos[1])) - cursor>>
        ELSE <<se[1], IF obj.type = INCLUSIVE THEN end1 + 1 ELSE end1>>

\* TextObject.operator_range(document): the cursor-relative <<start, end>> operators use.
operator_range(obj, t, cursor) ==
    LET se == sorted(obj)
        start0 == se[1]
        end0 == se[2]
        end1 == IF obj.type = EXCLUSIVE
                   /\ translate_index_to_position(t, end0 + cursor)[2] = 0
                THEN end0 - 1 ELSE end0
        end2 == IF obj.type = INCLUSIVE THEN end1 + 1 ELSE end1
        spos == translate_index_to_position(t, start0 + cursor)
        epos == translate_index_to_position(t, end2 + cursor)
    IN  IF obj.type = LINEWISE
        THEN <<translate_row_col_to_index(t, spos[1], 0) - cursor,
               translate_row_col_to_index(t, epos[1], line_length(t, epos[1])) - cursor>>
        ELSE <<start0, end2>>

\* ------------------------------------------------- session values (defaults)

NoSelection == None
NoClipboard == [text |-> <<>>, type |-> CHARACTERS]
NoHandled == [bell |-> 0, calls |-> <<>>]
NoObject == TextObject(0, 0, EXCLUSIVE)

\* ------------------------------------------------ Document queries (cursor)

\* Document.cursor_position_row and cursor_position_col.
cursor_position_row(t, c) == translate_index_to_position(t, c)[1]
cursor_position_col(t, c) == translate_index_to_position(t, c)[2]

\* len(Document.current_line) and len(Document.current_line_after_cursor).
current_line_length(t, c) == line_length(t, cursor_position_row(t, c))
after_cursor_length(t, c) == current_line_length(t, c) - cursor_position_col(t, c)

\* Document.is_cursor_at_the_end_of_line: current_char in ('\n', '').
is_cursor_at_the_end_of_line(t, c) == c >= Len(t) \/ t[c + 1] = NL

\* Document.get_cursor_left_position(count).
get_cursor_left_position(t, c, count) == -Min(cursor_position_col(t, c), count)

\* Document.get_cursor_right_position(count).
get_cursor_right_position(t, c, count) == Min(count, after_cursor_length(t, c))

\* Document.get_end_of_line_position().
get_end_of_line_position(t, c) == after_cursor_length(t, c)

\* Document.get_start_of_line_position(after_whitespace=False).
get_start_of_line_position(t, c) == -cursor_position_col(t, c)

\* Document.get_cursor_up_position(count), with no preferred column.
get_cursor_up_position(t, c, count) ==
    translate_row_col_to_index(t, Max(0, cursor_position_row(t, c) - count),
                               cursor_position_col(t, c)) - c

\* Document.get_cursor_down_position(count), with no preferred column.
get_cursor_down_position(t, c, count) ==
    translate_row_col_to_index(t, cursor_position_row(t, c) + count,
                               cursor_position_col(t, c)) - c

\* Characters of a word ([a-zA-Z0-9_]); the documents hold no other non-blank ones.
WordChars == {"a", "b", "c"}

\* Length of the run of word characters of t that starts at index i and goes in
\* direction d (1: t[i], t[i+1], ...; -1: t[i-1], t[i-2], ...).
RECURSIVE WordRun(_, _, _)
WordRun(t, i, d) ==
    LET at == IF d = 1 THEN i + 1 ELSE i
    IN  IF at < 1 \/ at > Len(t) THEN 0
        ELSE IF t[at] \notin WordChars THEN 0
        ELSE 1 + WordRun(t, i + d, d)

\* Document.find_boundaries_of_current_word(): <<start, end>> relative to the cursor.
find_boundaries_of_current_word(t, c) == <<-WordRun(t, c, -1), WordRun(t, c, 1)>>

\* The class of a character for _FIND_WORD_RE: a word character, white space,
\* or anything else.
CharClass(ch) ==
    IF ch \in WordChars THEN "word" ELSE IF ch \in {" ", NL} THEN "space" ELSE "other"

\* Starts of the matches of _FIND_WORD_RE in text_after_cursor.
WordStartsAfter(t, c) ==
    {i \in 0..(Len(t) - c - 1) :
        /\ CharClass(t[c + i + 1]) # "space"
        /\ i = 0 \/ CharClass(t[c + i]) # CharClass(t[c + i + 1])}

\* Document.find_next_word_beginning(count): None, or the relative position of
\* the start of the count-th word after the one the cursor is on.
find_next_word_beginning(t, c, count) ==
    LET starts == WordStartsAfter(t, c)
        n == IF 0 \in starts THEN count + 1 ELSE count
    IN  IF Cardinality(starts) >= n
        THEN <<CHOOSE i \in starts : Cardinality({j \in starts : j < i}) = n - 1>>
        ELSE None

\* Document.find_enclosing_bracket_right / _left: index of the bracket that
\* closes the one at the cursor, walking from i in direction d with `stack`
\* brackets open; None when the text ends first.
RECURSIVE BracketWalk(_, _, _, _, _, _)
BracketWalk(t, i, d, own, other, stack) ==
    IF i < 0 \/ i >= Len(t) THEN None
    ELSE LET st == IF t[i + 1] = own THEN stack + 1
                   ELSE IF t[i + 1] = other THEN stack - 1 ELSE stack
         IN  IF st = 0 THEN <<i>> ELSE BracketWalk(t, i + d, d, own, other, st)

\* Document.find_matching_bracket_position(): relative position of the bracket
\* matching the one under the cursor, 0 when there is none.
find_matching_bracket_position(t, c) ==
    IF c >= Len(t) THEN 0
    ELSE LET found == IF t[c + 1] = "(" THEN BracketWalk(t, c + 1, 1, "(", ")", 1)
                      ELSE IF t[c + 1] = ")" THEN BracketWalk(t, c - 1, -1, ")", "(", 1)
                      ELSE None
         IN  IF found = None THEN 0 ELSE found[1] - c

\* The count-th of the offsets `hits`, nearest first, as an optional value.
nth_hit(hits, count) ==
    IF \E i \in hits : Cardinality({j \in hits : j <= i}) = count
    THEN <<CHOOSE i \in hits : Cardinality({j \in hits : j <= i}) = count>>
    ELSE None

\* The optional offset `match`, counted backwards.
backwards_offset(match) == IF match = None THEN None ELSE <<-match[1]>>

\* Document.find(sub, in_current_line=True, count=count): offset of the
\* count-th occurrence of `sub` after the cursor on its line, None without one.
find(t, c, sub, count) ==
    nth_hit({i \in 1..(get_end_of_line_position(t, c) - 1) : t[c + i + 1] = sub}, count)

\* Document.find_backwards(sub, in_current_line=True, count=count): the negative
\* offset of the count-th occurrence before the cursor on its line, or None.
find_backwards(t, c, sub, count) ==
    backwards_offset(nth_hit({i \in 1..cursor_position_col(t, c) : t[c - i + 1] = sub},
                             count))

\* match_func of the paragraph queries: not text or text.isspace().
IsBlankLine(t, row) ==
    \A i \in 1..line_length(t, row) : t[line_start(t, row) + i] = " "

\* The count-th of the rows `rows` in direction d, the farthest one when there
\* are fewer, as an offset from `row`; None when there is no row.
nth_row(rows, row, d, count) ==
    IF rows = {} THEN None
    ELSE <<(CHOOSE r \in rows :
                Cardinality({x \in rows : (x - r) * d <= 0})
                    = Min(count, Cardinality(rows))) - row>>

\* Document.find_previous_matching_line / find_next_matching_line(match_func,
\* count) from row `row` in direction d: the offset in rows of the count-th
\* blank line, of the farthest one when there are fewer, None when there is none.
find_matching_line(t, row, d, count) ==
    nth_row({r \in 0..(line_count(t) - 1) : (r - row) * d > 0 /\ IsBlankLine(t, r)},
            row, d, count)

\* The cursor offset of a paragraph query that found the line `line_index`
\* (optional) in direction d, `edge` without one.
paragraph_offset(line_index, t, c, d, edge) ==
    IF line_index = None THEN edge
    ELSE IF d < 0 THEN Min(0, get_cursor_up_position(t, c, -line_index[1]))
    ELSE Max(0, get_cursor_down_position(t, c, line_index[1]))

\* Document.start_of_paragraph(count, before=True).
start_of_paragraph(t, c, count) ==
    paragraph_offset(find_matching_line(t, cursor_position_row(t, c), -1, count),
                     t, c, -1, -c)

\* Document.end_of_paragraph(count, after=True).
end_of_paragraph(t, c, count) ==
    paragraph_offset(find_matching_line(t, cursor_position_row(t, c), 1, count),
                     t, c, 1, Len(t) - c)

\* text[i:j] with Python's reading of negative indexes.
PySlice(s, i, j) ==
    LET lo == IF i < 0 THEN Max(0, Len(s) + i) ELSE i
        hi == IF j < 0 THEN Max(0, Len(s) + j) ELSE j
    IN  Slice(s, lo, hi)

\* '\n'.join(Document.lines[from_row:to_row]) for 0 <= from_row.
JoinLines(t, from_row, to_row) ==
    LET last == Min(to_row, line_count(t)) - 1
    IN  IF last < from_row THEN <<>>
        ELSE Slice(t, line_start(t, from_row), line_start(t, last) + line_length(t, last))

\* len(s) - len(s.lstrip(' ')): the number of leading spaces.
LeadingSpaces(s) ==
    IF \A i \in 1..Len(s) : s[i] = " " THEN Len(s)
    ELSE (CHOOSE i \in 1..Len(s) : s[i] # " " /\ \A j \in 1..(i - 1) : s[j] = " ") - 1

\* ------------------------------------------------------------------ session

\* The state a handler works on: the buffer, the vi state, the clipboard, the
\* processor's fresh count, and what the call has done so far (bells rung,
\* operator calls made, EditReadOnlyBuffer raised).
Session ==
    [text |-> text, cursor_position |-> cursor_position,
     selection_state |-> selection_state, input_mode |-> input_mode,
     operator_func |-> operator_func, operator_arg |-> operator_arg,
     last_character_find |-> last_character_find,
     clipboard |-> clipboard, arg |-> None,
     bell |-> 0, calls |-> <<>>, raised |-> FALSE]

\* Value of a digit key.
DigitValue(k) == CASE k = "0" -> 0 [] k = "1" -> 1 [] k = "2" -> 2 [] k = "3" -> 3

\* int(s) of a string of digits.
RECURSIVE int(_)
int(s) == IF s = <<>> THEN 0 ELSE int(SubSeq(s, 1, Len(s) - 1)) * 10 + DigitValue(s[Len(s)])

\* KeyPressEvent.arg: int(_arg or 1), and 1 from a million on.
EventArg(ev) ==
    IF ev.arg = None THEN 1
    ELSE IF int(ev.arg) >= 1000000 THEN 1 ELSE int(ev.arg)

\* ClipboardData(text, type).
ClipboardData(t, type) == [text |-> t, type |-> type]

\* Buffer.cursor_position setter: max(0, value).
SetCursor(S, value) == [S EXCEPT !.cursor_position = Max(0, value)]

\* Buffer.delete(count): <<session, deleted>>; the text setter raises
\* EditReadOnlyBuffer on a read-only buffer.
BufferDelete(S, count) ==
    IF S.cursor_position < Len(S.text)
    THEN LET after == Slice(S.text, S.cursor_position, Len(S.text))
             deleted == Prefix(after, count)
         IN  IF read_only
             THEN <<[S EXCEPT !.raised = TRUE], <<>>>>
             ELSE <<[S EXCEPT !.text = Slice(S.text, 0, S.cursor_position)
                                  \o Slice(S.text, S.cursor_position + Len(deleted), Len(S.text))],
                    deleted>>
    ELSE <<S, <<>>>>

\* Buffer.delete_before_cursor(count=1): <<session, deleted>>.
BufferDeleteBeforeCursor(S) ==
    IF S.cursor_position > 0
    THEN IF read_only
         THEN <<[S EXCEPT !.raised = TRUE], <<>>>>
         ELSE <<[S EXCEPT !.text = Slice(S.text, 0, S.cursor_position - 1)
                              \o Slice(S.text, S.cursor_position, Len(S.text)),
                          !.cursor_position = S.cursor_position - 1],
                Slice(S.text, S.cursor_position - 1, S.cursor_position)>>
    ELSE <<S, <<>>>>

\* The rows from_row..to_row of a BLOCK selection between the columns lo..hi: one
\* range per line that reaches column lo.
RECURSIVE BlockRanges(_, _, _, _, _)
BlockRanges(t, row, to_row, lo, hi) ==
    IF row > to_row THEN <<>>
    ELSE (IF lo < line_length(t, row)
          THEN <<<<translate_row_col_to_index(t, row, lo),
                   translate_row_col_to_index(t, row, Min(line_length(t, row) - 1, hi))>>>>
          ELSE <<>>)
         \o BlockRanges(t, row + 1, to_row, lo, hi)

\* Document.selection_ranges(): the <<from, to>> pairs of the selection, both ends
\* included; a LINES selection is snapped to whole lines.
selection_ranges(S) ==
    LET a == Min(S.cursor_position, S.selection_state.original_cursor_position)
        b == Max(S.cursor_position, S.selection_state.original_cursor_position)
        t == S.text
        pa == translate_index_to_position(t, a)
        pb == translate_index_to_position(t, b)
    IN  CASE S.selection_state.type = BLOCK ->
                BlockRanges(t, pa[1], pb[1], Min(pa[2], pb[2]), Max(pa[2], pb[2]))
          [] S.selection_state.type = LINES ->
                <<<<line_start(t, pa[1]),
                    LET nls == {i \in b..(Len(t) - 1) : t[i + 1] = NL}
                    IN  IF nls = {} THEN Len(t) - 1
                        ELSE CHOOSE i \in nls : \A j \in nls : i <= j>>>>
          [] OTHER -> <<<<a, b>>>>

\* Document.cut_selection(), the loop over the ranges from range i on:
\* <<remaining text, cut parts joined by newlines>>.
RECURSIVE CutParts(_, _, _, _)
CutParts(t, ranges, i, last_to) ==
    IF i > Len(ranges) THEN <<Slice(t, last_to, Len(t)), <<>>>>
    ELSE LET rest == CutParts(t, ranges, i + 1, ranges[i][2] + 1)
         IN  <<Slice(t, last_to, ranges[i][1]) \o rest[1],
               Slice(t, ranges[i][1], ranges[i][2] + 1)
                   \o (IF i < Len(ranges) THEN <<NL>> ELSE <<>>) \o rest[2]>>

\* Document.cut_selection(): <<remaining text, new cursor position, clipboard data>>.
cut_selection(S) ==
    LET ranges == selection_ranges(S)
        parts == CutParts(S.text, ranges, 1, 0)
        cut == parts[2]
        cut_text == IF S.selection_state.type = LINES /\ Len(cut) > 0 /\ cut[Len(cut)] = NL
                    THEN Slice(cut, 0, Len(cut) - 1) ELSE cut
    IN  <<parts[1],
          IF ranges = <<>> THEN S.cursor_position ELSE ranges[1][1],
          ClipboardData(cut_text, S.selection_state.type)>>

\* check_cursor_position: the hook run after every handler.
check_cursor_position(S) ==
    IF /\ S.input_mode = "NAVIGATION"
       /\ is_cursor_at_the_end_of_line(S.text, S.cursor_position)
       /\ current_line_length(S.text, S.cursor_position) > 0
    THEN [S EXCEPT !.cursor_position = S.cursor_position - 1]
    ELSE S

\* ---------------------------------------------------------------- operators

\* delete_range tagging everything it deletes as Lines.
delete_range_TagLines(S, obj, r) ==
    LET d == BufferDelete(SetCursor(S, S.cursor_position + r[1]), r[2] - r[1])
    IN  IF d[2] # <<>>
        THEN [d[1] EXCEPT !.clipboard = ClipboardData(d[2], LINES)]
        ELSE d[1]

\* delete_operator, first half: move to the start of the range, delete until its
\* end and put what was deleted on the clipboard.
delete_range(S, obj, r) ==
    LET d == BufferDelete(SetCursor(S, S.cursor_position + r[1]), r[2] - r[1])
    IN  IF d[2] # <<>>
        THEN [d[1] EXCEPT !.clipboard = ClipboardData(d[2], selection_type(obj))]
        ELSE d[1]

\* delete_newline leaving the newline of the deleted lines in place.
delete_newline_Keep(S) == S

\* delete_operator, linewise 'd': buff.delete() or buff.delete_before_cursor().
delete_newline(S) ==
    LET nl == BufferDelete(S, 1)
    IN  IF nl[2] # <<>> \/ nl[1].raised THEN nl[1]
        ELSE BufferDeleteBeforeCursor(nl[1])[1]

\* delete_operator deleting the newline of a linewise object for 'c' as well.
delete_operator_AlwaysNewline(delete_only, S, obj) ==
    LET D == delete_range(S, obj, operator_range(obj, S.text, S.cursor_position))
        E == IF obj.type = LINEWISE THEN delete_newline(D) ELSE D
    IN  IF D.raised THEN D
        ELSE IF delete_only THEN E ELSE [E EXCEPT !.input_mode = "INSERT"]

\* delete_operator of create_delete_and_change_operators(delete_only).
delete_operator(delete_only, S, obj) ==
    LET D == delete_range(S, obj, operator_range(obj, S.text, S.cursor_position))
    IN  IF D.raised THEN D
        ELSE IF delete_only
        THEN IF obj.type = LINEWISE THEN delete_newline(D) ELSE D
        ELSE [D EXCEPT !.input_mode = "INSERT"]

\* yank_handler copying as many times the range as the operator's own count.
yank_handler_TimesOperatorArg(S, obj) ==
    LET r == operator_range(obj, S.text, S.cursor_position)
        substring == PySlice(S.text, S.cursor_position + r[1],
                             S.cursor_position
                             + r[2] * (IF S.operator_arg # None THEN S.operator_arg[1] ELSE 1))
    IN  IF substring # <<>>
        THEN [S EXCEPT !.clipboard = ClipboardData(substring, selection_type(obj))]
        ELSE S

\* yank_handler.
yank_handler(S, obj) ==
    LET r == operator_range(obj, S.text, S.cursor_position)
        substring == PySlice(S.text, S.cursor_position + r[1], S.cursor_position + r[2])
    IN  IF substring # <<>>
        THEN [S EXCEPT !.clipboard = ClipboardData(substring, selection_type(obj))]
        ELSE S

\* vi_transform_functions, 'g~': str.swapcase on one character.
SwapCase(ch) ==
    CASE ch = "a" -> "A" [] ch = "A" -> "a" [] ch = "b" -> "B" [] ch = "B" -> "b"
      [] OTHER -> ch

\* Buffer.transform_region(from_, to, str.swapcase).
transform_region(S, from, to) ==
    IF read_only THEN [S EXCEPT !.raised = TRUE]
    ELSE [S EXCEPT !.text = [i \in 1..Len(S.text) |->
                                IF i > from /\ i <= to THEN SwapCase(S.text[i])
                                ELSE S.text[i]]]

\* create_transform_handler(swapcase, 'g', '~'): transform the range, then move
\* the cursor by (text_object.end or text_object.start).
transform_handler(S, obj) ==
    LET r == operator_range(obj, S.text, S.cursor_position)
        T == transform_region(S, S.cursor_position + r[1], S.cursor_position + r[2])
    IN  IF r[1] < r[2]
        THEN IF T.raised THEN T
             ELSE SetCursor(T, T.cursor_position
                                  + (IF obj.end # 0 THEN obj.end ELSE obj.start))
        ELSE S

\* TextObject.get_line_numbers: the rows of the two ends of the range; the row
\* of a negative index is -1 (bisect_right(line_start_indexes, index) - 1).
get_line_numbers(obj, t, cursor) ==
    LET r == operator_range(obj, t, cursor)
        row(i) == IF i < 0 THEN -1 ELSE translate_index_to_position(t, i)[1]
    IN  <<row(cursor + r[1]), row(cursor + r[2])>>

\* '    ' * count.
RECURSIVE IndentUnits(_)
IndentUnits(count) ==
    IF count <= 0 THEN <<>> ELSE <<" ", " ", " ", " ">> \o IndentUnits(count - 1)

\* The callback of unindent: drop '    ' * count when the line starts with it,
\* else line.lstrip().
unindent_line(line, count) ==
    LET remove == IndentUnits(count)
    IN  IF Slice(line, 0, Len(remove)) = remove
        THEN Slice(line, Len(remove), Len(line))
        ELSE Slice(line, LeadingSpaces(line), Len(line))

\* Buffer.transform_lines(range(from_row, to_row), callback), from line `row` on.
RECURSIVE transform_lines(_, _, _, _, _, _)
transform_lines(t, row, from_row, to_row, count, right) ==
    LET line == Slice(t, line_start(t, row), line_start(t, row) + line_length(t, row))
        new == IF row >= from_row /\ row < to_row
               THEN IF right THEN IndentUnits(count) \o line
                    ELSE unindent_line(line, count)
               ELSE line
    IN  IF row >= line_count(t) - 1 THEN new
        ELSE new \o <<NL>> \o transform_lines(t, row + 1, from_row, to_row, count, right)

\* indent(buffer, from_row, to_row, count) and unindent(...): transform the
\* lines, then put the cursor after the leading whitespace of its row.
indent(S, from_row, to_row, count, right) ==
    LET current_row == cursor_position_row(S.text, S.cursor_position)
        new_text == transform_lines(S.text, 0, from_row, to_row, count, right)
        start == translate_row_col_to_index(new_text, current_row, 0)
        line == Slice(new_text, start, start + line_length(new_text, current_row))
    IN  IF read_only THEN [S EXCEPT !.raised = TRUE]
        ELSE [S EXCEPT !.text = new_text,
                       !.cursor_position = start + LeadingSpaces(line)]

\* @operator('>') and @operator('<'): indent(buff, from_, to + 1, count=event.arg).
indent_handler(S, obj, ev, right) ==
    LET rows == get_line_numbers(obj, S.text, S.cursor_position)
    IN  indent(S, rows[1], rows[2] + 1, EventArg(ev), right)

\* Operators registered with @operator, by key sequence.
Operators == {<<"c">>, <<"d">>, <<"g", "~">>, <<"y">>, <<">">>, <<"<">>}

\* operator_func(event, text_object): the call is recorded in `calls`.
CallOperator(op, S, obj, ev) ==
    LET R == CASE op = <<"d">> -> delete_operator(TRUE, S, obj)
               [] op = <<"c">> -> delete_operator(FALSE, S, obj)
               [] op = <<"g", "~">> -> transform_handler(S, obj)
               [] op = <<"y">> -> yank_handler(S, obj)
               [] op = <<">">> -> indent_handler(S, obj, ev, TRUE)
               [] op = <<"<">> -> indent_handler(S, obj, ev, FALSE)
    IN  [R EXCEPT !.calls = Append(S.calls, [op |-> op, obj |-> obj])]

\* ------------------------------------------------------------- text objects

\* Key sequences registered with @text_object ("Any" is Keys.Any).
TextObjectKeys ==
    {<<"Any">>, <<"$">>, <<"w">>, <<"i", "w">>, <<"0">>, <<"{">>, <<"}">>,
     <<"f", "Any">>, <<"F", "Any">>, <<"t", "Any">>, <<"T", "Any">>, <<",">>, <<";">>,
     <<"h">>, <<"j">>, <<"k">>, <<"l">>, <<"%">>, <<"g", "g">>, <<"G">>}

\* Text objects registered with no_move_handler=True.
NoMoveHandler == {<<"i", "w">>, <<"0">>, <<"j">>, <<"k">>}

\* The row of the file at `percentage` percent: int((arg * line_count - 1) / 100).
PercentRow(t, percentage) == (percentage * line_count(t) - 1) \div 100

\* text_object('%') giving an inclusive object for the percentage position too.
percent_Inclusive(t, c, ev) ==
    IF ev.arg # None
    THEN IF 0 < EventArg(ev) /\ EventArg(ev) <= 100
         THEN TextObject(translate_row_col_to_index(t, PercentRow(t, EventArg(ev)), 0) - c,
                         0, INCLUSIVE)
         ELSE TextObject(0, 0, EXCLUSIVE)
    ELSE IF find_matching_bracket_position(t, c) # 0
         THEN TextObject(find_matching_bracket_position(t, c), 0, INCLUSIVE)
         ELSE TextObject(0, 0, EXCLUSIVE)

\* text_object('%'): with a count the row at that percentage of the file,
\* otherwise the matching bracket.
percent(t, c, ev) ==
    IF ev.arg # None
    THEN IF 0 < EventArg(ev) /\ EventArg(ev) <= 100
         THEN TextObject(translate_row_col_to_index(t, PercentRow(t, EventArg(ev)), 0) - c,
                         0, LINEWISE)
         ELSE TextObject(0, 0, EXCLUSIVE)
    ELSE IF find_matching_bracket_position(t, c) # 0
         THEN TextObject(find_matching_bracket_position(t, c), 0, INCLUSIVE)
         ELSE TextObject(0, 0, EXCLUSIVE)

\* CharacterFind(character, backwards).
CharacterFind(character, backwards) == [character |-> character, backwards |-> backwards]

\* The TextObject of 'f' and 't' for the optional offset `match`.
found_forward(match, shift) ==
    IF match # None THEN TextObject(match[1] + shift, 0, INCLUSIVE)
    ELSE TextObject(0, 0, EXCLUSIVE)

\* The TextObject of 'F' and 'T' for the optional offset `match`.
found_backward(match, shift) ==
    TextObject(IF match # None THEN match[1] + shift ELSE 0, 0, EXCLUSIVE)

\* text_object('f' / 'F' / 't' / 'T', Keys.Any): the TextObject for the character
\* event.data.
find_object(key, t, c, ev) ==
    CASE key = "f" -> found_forward(find(t, c, ev.data, EventArg(ev)), 0)
      [] key = "F" -> found_backward(find_backwards(t, c, ev.data, EventArg(ev)), 0)
      [] key = "t" -> found_forward(find(t, c, ev.data, EventArg(ev)), -1)
      [] key = "T" -> found_backward(find_backwards(t, c, ev.data, EventArg(ev)), 1)

\* The search of repeat: backwards or forwards on the cursor's line.
find_in_direction(t, c, character, count, backwards) ==
    IF backwards THEN find_backwards(t, c, character, count)
    ELSE find(t, c, character, count)

\* The TextObject of repeat for the optional offset `pos`.
repeated_object(pos, backwards) ==
    IF pos # None
    THEN TextObject(pos[1], 0, IF backwards THEN EXCLUSIVE ELSE INCLUSIVE)
    ELSE TextObject(0, 0, EXCLUSIVE)

\* repeat searching in the remembered direction for ',' as well.
repeat_SameDirection(reverse, t, c, memory, ev) ==
    IF memory = None THEN TextObject(0, 0, EXCLUSIVE)
    ELSE repeated_object(find_in_direction(t, c, memory.character, EventArg(ev),
                                           memory.backwards),
                         memory.backwards)

\* repeat(reverse): the text object of ',' (reverse) and ';'.
repeat(reverse, t, c, memory, ev) ==
    IF memory = None THEN TextObject(0, 0, EXCLUSIVE)
    ELSE repeated_object(find_in_direction(t, c, memory.character, EventArg(ev),
                                           IF reverse THEN ~memory.backwards
                                           ELSE memory.backwards),
                         IF reverse THEN ~memory.backwards ELSE memory.backwards)

\* go_to_line returning an exclusive TextObject when a count is given.
go_to_line_Exclusive(t, c, ev) ==
    IF ev.arg # None
    THEN TextObject(translate_row_col_to_index(t, EventArg(ev) - 1, 0) - c, 0, EXCLUSIVE)
    ELSE TextObject(-c, 0, LINEWISE)

\* text_object('g', 'g'): the line of the count, the top of the input without one.
go_to_line(t, c, ev) ==
    IF ev.arg # None
    THEN TextObject(translate_row_col_to_index(t, EventArg(ev) - 1, 0) - c, 0, LINEWISE)
    ELSE TextObject(-c, 0, LINEWISE)

\* text_object_func(event) of the text object registered under `keys`: the
\* TextObject it returns (None for the unknown-key handler) and the session after it.
text_object_func(keys, S, ev) ==
    LET t == S.text
        c == S.cursor_position
    IN  CASE keys = <<"Any">> ->
                [obj |-> None, S |-> [S EXCEPT !.bell = S.bell + 1]]
          [] keys = <<"$">> ->
                [obj |-> TextObject(get_end_of_line_position(t, c), 0, EXCLUSIVE), S |-> S]
          [] keys = <<"w">> ->
                [obj |-> TextObject(
                            IF find_next_word_beginning(t, c, EventArg(ev)) # None
                            THEN find_next_word_beginning(t, c, EventArg(ev))[1]
                            ELSE Len(t) - c,
                            0, EXCLUSIVE),
                 S |-> S]
          [] keys = <<"0">> ->
                [obj |-> TextObject(get_start_of_line_position(t, c), 0, EXCLUSIVE), S |-> S]
          [] keys = <<"i", "w">> ->
                [obj |-> TextObject(find_boundaries_of_current_word(t, c)[1],
                                    find_boundaries_of_current_word(t, c)[2], EXCLUSIVE),
                 S |-> S]
          [] keys = <<"j">> ->
                [obj |-> TextObject(get_cursor_down_position(t, c, EventArg(ev)), 0, LINEWISE),
                 S |-> S]
          [] keys = <<"k">> ->
                [obj |-> TextObject(get_cursor_up_position(t, c, EventArg(ev)), 0, LINEWISE),
                 S |-> S]
          [] keys = <<"h">> ->
                [obj |-> TextObject(get_cursor_left_position(t, c, EventArg(ev)), 0, EXCLUSIVE),
                 S |-> S]
          [] keys = <<"l">> ->
                [obj |-> TextObject(get_cursor_right_position(t, c, EventArg(ev)), 0, EXCLUSIVE),
                 S |-> S]
          [] keys = <<"%">> -> [obj |-> percent(t, c, ev), S |-> S]
          [] keys = <<"{">> ->
                [obj |-> TextObject(start_of_paragraph(t, c, EventArg(ev)), 0, EXCLUSIVE),
                 S |-> S]
          [] keys = <<"}">> ->
                [obj |-> TextObject(end_of_paragraph(t, c, EventArg(ev)), 0, EXCLUSIVE),
                 S |-> S]
          [] keys \in {<<"f", "Any">>, <<"t", "Any">>} ->
                [obj |-> find_object(keys[1], t, c, ev),
                 S |-> [S EXCEPT !.last_character_find = CharacterFind(ev.data, FALSE)]]
          [] keys \in {<<"F", "Any">>, <<"T", "Any">>} ->
                [obj |-> find_object(keys[1], t, c, ev),
                 S |-> [S EXCEPT !.last_character_find = CharacterFind(ev.data, TRUE)]]
          [] keys = <<",">> ->
                [obj |-> repeat(TRUE, t, c, S.last_character_find, ev), S |-> S]
          [] keys = <<";">> ->
                [obj |-> repeat(FALSE, t, c, S.last_character_find, ev), S |-> S]
          [] keys = <<"g", "g">> -> [obj |-> go_to_line(t, c, ev), S |-> S]
          [] keys = <<"G">> ->
                [obj |-> TextObject(translate_row_col_to_index(t, line_count(t) - 1, 0) - c,
                                    0, LINEWISE),
                 S |-> S]

\* ------------------------------------------------------------------ handlers

\* escape moving the cursor one position back whatever its column.
escape_AlwaysLeft(S, ev) ==
    LET S1 == IF S.input_mode \in {"INSERT", "REPLACE"}
              THEN SetCursor(S, S.cursor_position - 1)
              ELSE S
    IN  [S1 EXCEPT !.input_mode = "NAVIGATION", !.selection_state = None]

\* handle(Keys.Escape).
escape(S, ev) ==
    LET S1 == IF S.input_mode \in {"INSERT", "REPLACE"}
              THEN SetCursor(S, S.cursor_position
                                + get_cursor_left_position(S.text, S.cursor_position, 1))
              ELSE S
    IN  [S1 EXCEPT !.input_mode = "NAVIGATION", !.selection_state = None]

\* handle('k' / 'j', filter=navigation_mode): Buffer.auto_up / auto_down with no
\* completion, no history and no preferred column: move within the document.
auto_up(S, ev) ==
    IF cursor_position_row(S.text, S.cursor_position) > 0
    THEN SetCursor(S, S.cursor_position
                      + get_cursor_up_position(S.text, S.cursor_position, EventArg(ev)))
    ELSE S
auto_down(S, ev) ==
    IF cursor_position_row(S.text, S.cursor_position) < line_count(S.text) - 1
    THEN SetCursor(S, S.cursor_position
                      + get_cursor_down_position(S.text, S.cursor_position, EventArg(ev)))
    ELSE S

\* handle(Keys.Insert, filter=navigation_mode) and
\* handle('i', filter=navigation_mode & ~IsReadOnly()).
insert(S, ev) == [S EXCEPT !.input_mode = "INSERT"]

\* handle('a', filter=navigation_mode & ~IsReadOnly()).
append(S, ev) ==
    [SetCursor(S, S.cursor_position + get_cursor_right_position(S.text, S.cursor_position, 1))
        EXCEPT !.input_mode = "INSERT"]

\* handle('A', filter=navigation_mode & ~IsReadOnly()).
append_to_line(S, ev) ==
    [SetCursor(S, S.cursor_position + get_end_of_line_position(S.text, S.cursor_position))
        EXCEPT !.input_mode = "INSERT"]

\* handle('c', 'c', filter=navigation_mode & ~IsReadOnly()): change the current line.
change_line(S, ev) ==
    LET t == S.text
        row == cursor_position_row(t, S.cursor_position)
        line == JoinLines(t, row, row + 1)
        S1 == SetCursor([S EXCEPT !.clipboard = ClipboardData(line, LINES)],
                        line_start(t, row) + LeadingSpaces(line))
        d == BufferDelete(S1, get_end_of_line_position(t, S1.cursor_position))
    IN  IF d[1].raised THEN d[1] ELSE [d[1] EXCEPT !.input_mode = "INSERT"]

\* handle('R', filter=navigation_mode).
replace(S, ev) == [S EXCEPT !.input_mode = "REPLACE"]

\* handle(Keys.Any, filter=replace_mode): insert_text(event.data, overwrite=True);
\* a newline is not overwritten.
overwrite(S, ev) ==
    LET c == S.cursor_position
        over == IF c < Len(S.text) /\ S.text[c + 1] # NL THEN 1 ELSE 0
    IN  IF read_only THEN [S EXCEPT !.raised = TRUE]
        ELSE [S EXCEPT !.text = Slice(S.text, 0, c) \o <<ev.data>>
                                \o Slice(S.text, c + over, Len(S.text)),
                       !.cursor_position = c + 1]

\* delete_lines putting only the cursor's line on the clipboard.
delete_lines_FirstLineOnly(S, ev) ==
    LET t == S.text
        row == cursor_position_row(t, S.cursor_position)
        before0 == JoinLines(t, 0, row)
        after == JoinLines(t, row + EventArg(ev), line_count(t))
        before == IF before0 # <<>> /\ after # <<>> THEN Append(before0, NL) ELSE before0
    IN  IF read_only THEN [S EXCEPT !.raised = TRUE]
        ELSE [S EXCEPT !.text = before \o after,
                       !.cursor_position = Len(before) + LeadingSpaces(after),
                       !.clipboard = ClipboardData(JoinLines(t, row, row + 1), LINES)]

\* handle('d', 'd', filter=navigation_mode): delete event.arg lines.
delete_lines(S, ev) ==
    LET t == S.text
        row == cursor_position_row(t, S.cursor_position)
        before0 == JoinLines(t, 0, row)
        deleted == JoinLines(t, row, row + EventArg(ev))
        after == JoinLines(t, row + EventArg(ev), line_count(t))
        before == IF before0 # <<>> /\ after # <<>> THEN Append(before0, NL) ELSE before0
    IN  IF read_only THEN [S EXCEPT !.raised = TRUE]
        ELSE [S EXCEPT !.text = before \o after,
                       !.cursor_position = Len(before) + LeadingSpaces(after),
                       !.clipboard = ClipboardData(deleted, LINES)]

\* handle('y', 'y', filter=navigation_mode): yank event.arg lines.
yank_lines(S, ev) ==
    LET row == cursor_position_row(S.text, S.cursor_position)
    IN  [S EXCEPT !.clipboard =
            ClipboardData(JoinLines(S.text, row, row + EventArg(ev)), LINES)]

\* handle('V' / Keys.ControlV / 'v', filter=navigation_mode):
\* Buffer.start_selection(selection_type=type).
start_selection(type, S, ev) ==
    [S EXCEPT !.selection_state =
        [type |-> type, original_cursor_position |-> S.cursor_position]]

\* toggle_selection leaving the selection whatever its type.
toggle_selection_AlwaysExit(type, S, ev) == [S EXCEPT !.selection_state = None]

\* handle('V' / 'v' / Keys.ControlV, filter=selection_mode): leave a selection of
\* this type, or turn a selection of another type into this type.
toggle_selection(type, S, ev) ==
    IF S.selection_state.type # type
    THEN [S EXCEPT !.selection_state.type = type]
    ELSE [S EXCEPT !.selection_state = None]

\* handle('x', filter=navigation_mode): delete event.arg characters.
delete_char(S, ev) ==
    LET d == BufferDelete(S, EventArg(ev))
    IN  IF d[1].raised THEN d[1]
        ELSE [d[1] EXCEPT !.clipboard = ClipboardData(d[2], CHARACTERS)]

\* handle('x' / 'd', filter=selection_mode): Buffer.cut_selection().
cut(S, ev) ==
    LET r == cut_selection(S)
    IN  IF read_only THEN [S EXCEPT !.raised = TRUE]
        ELSE [S EXCEPT !.text = r[1], !.cursor_position = r[2],
                       !.selection_state = None, !.clipboard = r[3]]

\* handle('c', filter=selection_mode & ~IsReadOnly()): cut and go to insert mode.
change(S, ev) ==
    LET r == cut(S, ev)
    IN  IF r.raised THEN r ELSE [r EXCEPT !.input_mode = "INSERT"]

\* handle('y', filter=selection_mode): Buffer.copy_selection().
copy(S, ev) ==
    [S EXCEPT !.selection_state = None, !.clipboard = cut_selection(S)[3]]

\* operator_navigation storing the raw count (event._arg) instead of event.arg.
operator_navigation_RawArg(op, S, ev) ==
    [S EXCEPT !.operator_func = op, !.operator_arg = ev.arg]

\* operator.decorator, navigation handler: only remember the operator.
operator_navigation(op, S, ev) ==
    [S EXCEPT !.operator_func = op, !.operator_arg = <<EventArg(ev)>>]

\* operator.decorator, selection handler, after the operator: quit selection mode.
quit_selection(R) == IF R.raised THEN R ELSE [R EXCEPT !.selection_state = None]

\* operator_selection with an inclusive text object for every selection type.
operator_selection_Inclusive(op, S, ev) ==
    quit_selection(
        CallOperator(op, S,
            TextObject(S.selection_state.original_cursor_position - S.cursor_position, 0,
                       INCLUSIVE), ev))

\* operator.decorator, selection handler: run the operator on the selection.
operator_selection(op, S, ev) ==
    quit_selection(
        CallOperator(op, S,
            TextObject(S.selection_state.original_cursor_position - S.cursor_position, 0,
                       IF S.selection_state.type = LINES THEN LINEWISE ELSE INCLUSIVE), ev))

\* clear_operator leaving the operator's count behind.
clear_operator_KeepArg(R) ==
    IF R.raised THEN R ELSE [R EXCEPT !.operator_func = None]

\* text_object.decorator, operator-pending handler, after the operator: clear it.
clear_operator(R) ==
    IF R.raised THEN R ELSE [R EXCEPT !.operator_func = None, !.operator_arg = None]

\* text_object.decorator, operator-pending handler: call the pending operator with
\* the text object, if there is one.
call_pending(r, ev) ==
    IF r.obj # None THEN CallOperator(r.S.operator_func, r.S, r.obj, ev) ELSE r.S

\* text_object.decorator, operator-pending handler.
text_object_operator(keys, S, ev) ==
    clear_operator(call_pending(text_object_func(keys, S, ev), ev))

\* The cursor moved by `start` of the TextObject of r = [obj, S].
move_by_start(r) == SetCursor(r.S, r.S.cursor_position + r.obj.start)

\* text_object_move moving one position less far.
text_object_move_Short(keys, S, ev) ==
    SetCursor(text_object_func(keys, S, ev).S,
              text_object_func(keys, S, ev).S.cursor_position
              + text_object_func(keys, S, ev).obj.start - 1)

\* text_object.decorator, move handler for navigation mode.
text_object_move(keys, S, ev) == move_by_start(text_object_func(keys, S, ev))

\* The selection of r.S set from the TextObject of r = [obj, S] and its range.
select_range(r, rng, anchor) ==
    IF r.obj.end # 0
    THEN [r.S EXCEPT
            !.selection_state = [type |-> IF r.obj.type = LINEWISE THEN LINES ELSE CHARACTERS,
                                 original_cursor_position |-> anchor],
            !.cursor_position = Max(0, rng[2] + r.S.cursor_position)]
    ELSE move_by_start(r)

\* The selection of r = [obj, S] after its TextObject is applied to it.
select_object(r) ==
    select_range(r, operator_range(r.obj, r.S.text, r.S.cursor_position),
                 operator_range(r.obj, r.S.text, r.S.cursor_position)[1]
                 + r.S.cursor_position)

\* select_object leaving the selection anchor where it was.
select_object_KeepAnchor(r) ==
    select_range(r, operator_range(r.obj, r.S.text, r.S.cursor_position),
                 r.S.selection_state.original_cursor_position)

\* text_object_select leaving the selection anchor where it was.
text_object_select_KeepAnchor(keys, S, ev) ==
    select_object_KeepAnchor(text_object_func(keys, S, ev))

\* text_object.decorator, move handler for selection mode.
text_object_select(keys, S, ev) == select_object(text_object_func(keys, S, ev))

\* digit with 0 never taken as a digit of the count.
digit_ZeroAlwaysMoves(S, ev) ==
    IF ev.data # "0"
    THEN [S EXCEPT !.arg = Append(ev.arg, ev.data)]
    ELSE SetCursor(S, S.cursor_position + get_start_of_line_position(S.text, S.cursor_position))

\* for n in '0123456789': handle(n, filter=navigation_mode|selection_mode|operator_given).
digit(S, ev) ==
    IF ev.data # "0" \/ ev.arg # None
    THEN [S EXCEPT !.arg = Append(ev.arg, ev.data)]
    ELSE SetCursor(S, S.cursor_position + get_start_of_line_position(S.text, S.cursor_position))

\* ------------------------------------------------------------------ filters

\* navigation_mode looking at the stored mode only.
navigation_mode_StoredOnly == input_mode = "NAVIGATION" /\ selection_state = None

\* The filters of load_vi_bindings, on the current state.
navigation_mode == (input_mode = "NAVIGATION" \/ read_only) /\ selection_state = None
insert_mode == input_mode = "INSERT" /\ selection_state = None /\ ~read_only
replace_mode == input_mode = "REPLACE" /\ selection_state = None /\ ~read_only
selection_mode == selection_state # None
operator_given == operator_func # None

\* One conjunct of a binding's filter.
FilterAtom(a) ==
    CASE a = "navigation_mode" -> navigation_mode
      [] a = "insert_mode" -> insert_mode
      [] a = "replace_mode" -> replace_mode
      [] a = "selection_mode" -> selection_mode
      [] a = "operator_given" -> operator_given
      [] a = "~operator_given" -> ~operator_given
      [] a = "~IsReadOnly" -> ~read_only
      [] a = "navigation_mode|selection_mode|operator_given" ->
            navigation_mode \/ selection_mode \/ operator_given

\* A binding's filter is the conjunction of its atoms (Always is the empty one).
FilterHolds(f) == \A a \in f : FilterAtom(a)

\* ----------------------------------------------------------------- registry

Binding(keys, filter, handler, param) ==
    [keys |-> keys, filter |-> filter, handler |-> handler, param |-> param]

\* The three handlers @text_object(keys, filter=f) registers, in order.
TextObjectBindings(keys, f) ==
    <<Binding(keys, {"operator_given"} \cup f, "text_object_operator", keys)>>
    \o (IF keys \in NoMoveHandler THEN <<>>
        ELSE <<Binding(keys, {"~operator_given", "navigation_mode"} \cup f,
                       "text_object_move", keys)>>)
    \o <<Binding(keys, {"~operator_given", "selection_mode"} \cup f,
                 "text_object_select", keys)>>

\* The two handlers @operator(keys, filter=f) registers, in order.
OperatorBindings(keys, f) ==
    <<Binding(keys, {"~operator_given", "navigation_mode"} \cup f, "operator_navigation", keys),
      Binding(keys, {"~operator_given", "selection_mode"} \cup f, "operator_selection", keys)>>

\* registry.key_bindings, in the order load_vi_bindings registers them.
Bindings ==
    <<Binding(<<"escape">>, {}, "escape", None),
      Binding(<<"k">>, {"selection_mode"}, "cursor_up", None),
      Binding(<<"j">>, {"selection_mode"}, "cursor_down", None),
      Binding(<<"k">>, {"navigation_mode"}, "auto_up", None),
      Binding(<<"j">>, {"navigation_mode"}, "auto_down", None),
      Binding(<<"insert">>, {"navigation_mode"}, "insert", None),
      Binding(<<"a">>, {"navigation_mode", "~IsReadOnly"}, "append", None),
      Binding(<<"A">>, {"navigation_mode", "~IsReadOnly"}, "append_to_line", None),
      Binding(<<"c", "c">>, {"navigation_mode", "~IsReadOnly"}, "change_line", None),
      Binding(<<"d", "d">>, {"navigation_mode"}, "delete_lines", None),
      Binding(<<"i">>, {"navigation_mode", "~IsReadOnly"}, "insert", None),
      Binding(<<"R">>, {"navigation_mode"}, "replace", None),
      Binding(<<"V">>, {"navigation_mode"}, "start_selection", LINES),
      Binding(<<"c-v">>, {"navigation_mode"}, "start_selection", BLOCK),
      Binding(<<"V">>, {"selection_mode"}, "toggle_selection", LINES),
      Binding(<<"v">>, {"navigation_mode"}, "start_selection", CHARACTERS),
      Binding(<<"v">>, {"selection_mode"}, "toggle_selection", CHARACTERS),
      Binding(<<"c-v">>, {"selection_mode"}, "toggle_selection", BLOCK),
      Binding(<<"x">>, {"navigation_mode"}, "delete_char", None),
      Binding(<<"d">>, {"selection_mode"}, "cut", None),
      Binding(<<"x">>, {"selection_mode"}, "cut", None),
      Binding(<<"c">>, {"selection_mode", "~IsReadOnly"}, "change", None),
      Binding(<<"y">>, {"selection_mode"}, "copy", None),
      Binding(<<"y", "y">>, {"navigation_mode"}, "yank_lines", None)>>
    \o TextObjectBindings(<<"Any">>, {"operator_given"})
    \o OperatorBindings(<<"c">>, {"~IsReadOnly"})
    \o OperatorBindings(<<"d">>, {"~IsReadOnly"})
    \o OperatorBindings(<<"g", "~">>, {"~IsReadOnly"})
    \o OperatorBindings(<<"y">>, {})
    \o OperatorBindings(<<">">>, {})
    \o OperatorBindings(<<"<">>, {})
    \o TextObjectBindings(<<"$">>, {})
    \o TextObjectBindings(<<"w">>, {})
    \o TextObjectBindings(<<"i", "w">>, {})
    \o TextObjectBindings(<<"0">>, {})
    \o TextObjectBindings(<<"{">>, {})
    \o TextObjectBindings(<<"}">>, {})
    \o TextObjectBindings(<<"f", "Any">>, {})
    \o TextObjectBindings(<<"F", "Any">>, {})
    \o TextObjectBindings(<<"t", "Any">>, {})
    \o TextObjectBindings(<<"T", "Any">>, {})
    \o TextObjectBindings(<<",">>, {})
    \o TextObjectBindings(<<";">>, {})
    \o TextObjectBindings(<<"h">>, {})
    \o TextObjectBindings(<<"j">>, {})
    \o TextObjectBindings(<<"k">>, {})
    \o TextObjectBindings(<<"l">>, {})
    \o TextObjectBindings(<<"%">>, {})
    \o TextObjectBindings(<<"g", "g">>, {})
    \o TextObjectBindings(<<"G">>, {})
    \o <<Binding(<<"0">>, {"navigation_mode|selection_mode|operator_given"}, "digit", None),
         Binding(<<"2">>, {"navigation_mode|selection_mode|operator_given"}, "digit", None),
         Binding(<<"3">>, {"navigation_mode|selection_mode|operator_given"}, "digit", None),
         Binding(<<"Any">>, {"replace_mode"}, "overwrite", None)>>

\* ------------------------------------------------------------ key processor

\* Bindings registered under exactly `keys` whose filter holds.
ActiveFor(keys) ==
    {i \in DOMAIN Bindings : Bindings[i].keys = keys /\ FilterHolds(Bindings[i].filter)}

\* InputProcessor._get_matches: exact matches, else matches with the last key
\* replaced by Keys.Any.
GetMatches(buf) ==
    IF ActiveFor(buf) # {} THEN ActiveFor(buf)
    ELSE ActiveFor(SubSeq(buf, 1, Len(buf) - 1) \o <<"Any">>)

\* InputProcessor._is_prefix_of_longer_match.
IsPrefixOfLongerMatch(buf) ==
    \E i \in DOMAIN Bindings :
        /\ Len(Bindings[i].keys) > Len(buf)
        /\ SubSeq(Bindings[i].keys, 1, Len(buf)) = buf
        /\ FilterHolds(Bindings[i].filter)

\* Length of the longest prefix of the key buffer that has a match (0: none).
MatchLength ==
    LET ok == {n \in 1..Len(key_buffer) : GetMatches(SubSeq(key_buffer, 1, n)) # {}}
    IN  IF ok = {} THEN 0 ELSE CHOOSE n \in ok : \A m \in ok : m <= n

\* matches[-1]: the last registered of the bindings matching the first n keys.
LastMatch(n) ==
    LET m == GetMatches(SubSeq(key_buffer, 1, n))
    IN  CHOOSE i \in m : \A j \in m : j <= i

\* The binding being called, the key sequence it is called with and the keys left.
ChosenBinding == Bindings[matched.binding]
KeySequence == SubSeq(key_buffer, 1, matched.length)
Remaining == SubSeq(key_buffer, matched.length + 1, Len(key_buffer))

\* The processor is about to call a handler.
Calling == pc = "call"

\* The processor is about to call handler h.
Dispatch(h) == pc = "call" /\ ChosenBinding.handler = h

\* KeyPressEvent: the raw count and the data of the last key.
Event == [arg |-> arg, data |-> key_buffer[matched.length]]

\* InputProcessor._call_handler after handler.call(event): fire on_handler_called
\* unless EditReadOnlyBuffer was raised, then drop the dispatched keys.
Return(S) ==
    /\ \E F \in {IF S.raised THEN S ELSE check_cursor_position(S)} :
        /\ text' = F.text
        /\ cursor_position' = F.cursor_position
        /\ selection_state' = F.selection_state
        /\ input_mode' = F.input_mode
        /\ operator_func' = F.operator_func
        /\ operator_arg' = F.operator_arg
        /\ last_character_find' = F.last_character_find
        /\ clipboard' = F.clipboard
        /\ arg' = F.arg
        /\ handled' = [bell |-> F.bell, calls |-> F.calls]
    /\ before_operator' =
          IF ChosenBinding.handler = "operator_navigation"
          THEN [input_mode |-> input_mode, selection_state |-> selection_state,
                arg |-> arg, text |-> text, cursor_position |-> cursor_position]
          ELSE None
    /\ key_buffer' = Remaining
    /\ matched' = None
    /\ pc' = IF Remaining = <<>> THEN "idle" ELSE "match"
    /\ UNCHANGED <<read_only, text_object, range, other_cli>>

\* A key arrives: buffer.append((yield)). A count grows to at most `digits` digits.
KeyArrives(k, digits) ==
    /\ pc = "idle"
    /\ k \in {"0", "2", "3"} => Len(arg) < digits
    /\ (replace_mode /\ k # "escape") => (k = "x" /\ Len(text) < MaxText)
    /\ key_buffer' = Append(key_buffer, k)
    /\ pc' = "match"
    /\ UNCHANGED <<text, cursor_position, read_only, selection_state, input_mode,
                   operator_func, operator_arg, last_character_find, other_cli,
                   clipboard, arg, handled, matched,
                   before_operator, text_object, range>>

KeyPress(k) == KeyArrives(k, MaxDigits)

\* The buffer is a prefix of a longer active binding: wait for the next key.
WaitForKey ==
    /\ pc = "match"
    /\ IsPrefixOfLongerMatch(key_buffer)
    /\ pc' = "idle"
    /\ UNCHANGED <<text, cursor_position, read_only, selection_state, input_mode,
                   operator_func, operator_arg, last_character_find, other_cli,
                   clipboard, arg, key_buffer, handled,
                   matched, before_operator, text_object, range>>

\* The longest prefix of the buffer that has matches picks the handler to call.
Match ==
    /\ pc = "match"
    /\ ~IsPrefixOfLongerMatch(key_buffer)
    /\ MatchLength > 0
    /\ matched' = [binding |-> LastMatch(MatchLength), length |-> MatchLength]
    /\ pc' = "call"
    /\ UNCHANGED <<text, cursor_position, read_only, selection_state, input_mode,
                   operator_func, operator_arg, last_character_find, other_cli,
                   clipboard, arg, key_buffer, handled,
                   before_operator, text_object, range>>

\* No prefix of the buffer matches: drop its first key and retry.
DropKey ==
    /\ pc = "match"
    /\ ~IsPrefixOfLongerMatch(key_buffer)
    /\ MatchLength = 0
    /\ key_buffer' = Tail(key_buffer)
    /\ pc' = IF Tail(key_buffer) = <<>> THEN "idle" ELSE "match"
    /\ UNCHANGED <<text, cursor_position, read_only, selection_state, input_mode,
                   operator_func, operator_arg, last_character_find, other_cli,
                   clipboard, arg, handled, matched,
                   before_operator, text_object, range>>

\* ------------------------------------------------------- the handler calls

Escape == Dispatch("escape") /\ Return(escape(Session, Event))
Insert == Dispatch("insert") /\ Return(insert(Session, Event))
DeleteLines == Dispatch("delete_lines") /\ Return(delete_lines(Session, Event))
YankLines == Dispatch("yank_lines") /\ Return(yank_lines(Session, Event))
StartSelection ==
    Dispatch("start_selection") /\ Return(start_selection(ChosenBinding.param, Session, Event))
ToggleSelection ==
    Dispatch("toggle_selection") /\ Return(toggle_selection(ChosenBinding.param, Session, Event))
AutoUp == Dispatch("auto_up") /\ Return(auto_up(Session, Event))
AutoDown == Dispatch("auto_down") /\ Return(auto_down(Session, Event))
AppendAfterCursor == Dispatch("append") /\ Return(append(Session, Event))
AppendToLine == Dispatch("append_to_line") /\ Return(append_to_line(Session, Event))
Replace == Dispatch("replace") /\ Return(replace(Session, Event))
Overwrite == Dispatch("overwrite") /\ Return(overwrite(Session, Event))
ChangeLine == Dispatch("change_line") /\ Return(change_line(Session, Event))
Change == Dispatch("change") /\ Return(change(Session, Event))
DeleteChar == Dispatch("delete_char") /\ Return(delete_char(Session, Event))
Cut == Dispatch("cut") /\ Return(cut(Session, Event))
Copy == Dispatch("copy") /\ Return(copy(Session, Event))
OperatorNavigation ==
    Dispatch("operator_navigation")
    /\ Return(operator_navigation(ChosenBinding.param, Session, Event))
OperatorSelection ==
    Dispatch("operator_selection")
    /\ Return(operator_selection(ChosenBinding.param, Session, Event))
TextObjectOperator ==
    Dispatch("text_object_operator")
    /\ Return(text_object_operator(ChosenBinding.param, Session, Event))
TextObjectMove ==
    Dispatch("text_object_move")
    /\ Return(text_object_move(ChosenBinding.param, Session, Event))
TextObjectSelect ==
    Dispatch("text_object_select")
    /\ Return(text_object_select(ChosenBinding.param, Session, Event))
Digit == Dispatch("digit") /\ Return(digit(Session, Event))

\* ------------------------------------------------------------ specification

\* Keys the user presses ("Z" is bound to nothing).
KeySet == {"escape", "d", "y", "x", "v", "i", "h", "l", "$", "0", "2", "Z"}

\* Documents a session starts with.
SessionDocs == {<<"a", "b">>, <<"a", NL, "b", "c">>}

\* A new session: ViState starts in INSERT mode with nothing pending.
Init ==
    /\ text \in SessionDocs
    /\ cursor_position \in 0..Len(text)
    /\ read_only \in BOOLEAN
    /\ selection_state = NoSelection
    /\ input_mode = "INSERT"
    /\ operator_func = None
    /\ operator_arg = None
    /\ last_character_find = None
    /\ other_cli = None
    /\ clipboard = NoClipboard
    /\ arg = None
    /\ key_buffer = <<>>
    /\ pc = "idle"
    /\ matched = None
    /\ handled = NoHandled
    /\ before_operator = None
    /\ text_object = NoObject
    /\ range = None

Next ==
    \/ \E k \in KeySet : KeyPress(k)
    \/ WaitForKey
    \/ Match
    \/ DropKey
    \/ Escape
    \/ Insert
    \/ DeleteLines
    \/ YankLines
    \/ StartSelection
    \/ ToggleSelection
    \/ DeleteChar
    \/ Cut
    \/ Copy
    \/ OperatorNavigation
    \/ OperatorSelection
    \/ TextObjectOperator
    \/ TextObjectMove
    \/ TextObjectSelect
    \/ Digit

Spec == Init /\ [][Next]_vars

\* ----------------------------------------------- specification: selections

\* Keys of a session that selects text: the three selection keys, the line
\* motions, the inner-word object and the delete operator.
VisualKeys == {"escape", "v", "V", "c-v", "j", "k", "i", "w", "d"}

\* Documents of three lines, one with an empty line and a two-letter word.
VisualDocs == {<<"a", NL, "b", NL, "c">>, <<"a", "b", NL, NL, "c">>}

InitVisual ==
    /\ text \in VisualDocs
    /\ cursor_position \in 0..Len(text)
    /\ read_only = FALSE
    /\ selection_state = NoSelection
    /\ input_mode = "INSERT"
    /\ operator_func = None
    /\ operator_arg = None
    /\ last_character_find = None
    /\ other_cli = None
    /\ clipboard = NoClipboard
    /\ arg = None
    /\ key_buffer = <<>>
    /\ pc = "idle"
    /\ matched = None
    /\ handled = NoHandled
    /\ before_operator = None
    /\ text_object = NoObject
    /\ range = None

NextVisual ==
    \/ \E k \in VisualKeys : (k = "w" => key_buffer = <<"i">>) /\ KeyPress(k)
    \/ WaitForKey
    \/ Match
    \/ DropKey
    \/ Escape
    \/ AutoUp
    \/ AutoDown
    \/ Insert
    \/ DeleteLines
    \/ StartSelection
    \/ ToggleSelection
    \/ Cut
    \/ OperatorNavigation
    \/ OperatorSelection
    \/ TextObjectOperator
    \/ TextObjectSelect

SpecVisual == InitVisual /\ [][NextVisual]_vars

\* ---------------------------------------------------- specification: modes

\* Keys of a session that changes mode: escape, the keys that enter insert and
\* replace mode, a selection key, and keys to move, delete and type with. In
\* replace mode every key but escape is typed text: "x" stands for them all.
ModeKeys == {"escape", "insert", "i", "a", "A", "c", "R", "v", "x", "l", "$"}

\* Documents of one and of two lines.
ModeDocs == {<<"a", "b">>, <<"a", NL>>}

InitModes ==
    /\ text \in ModeDocs
    /\ cursor_position \in 0..Len(text)
    /\ read_only \in BOOLEAN
    /\ selection_state = NoSelection
    /\ input_mode = "INSERT"
    /\ operator_func = None
    /\ operator_arg = None
    /\ last_character_find = None
    /\ other_cli = None
    /\ clipboard = NoClipboard
    /\ arg = None
    /\ key_buffer = <<>>
    /\ pc = "idle"
    /\ matched = None
    /\ handled = NoHandled
    /\ before_operator = None
    /\ text_object = NoObject
    /\ range = None

NextModes ==
    \/ \E k \in ModeKeys : KeyPress(k)
    \/ WaitForKey
    \/ Match
    \/ DropKey
    \/ Escape
    \/ Insert
    \/ AppendAfterCursor
    \/ AppendToLine
    \/ ChangeLine
    \/ Replace
    \/ Overwrite
    \/ StartSelection
    \/ ToggleSelection
    \/ DeleteChar
    \/ Cut
    \/ Change
    \/ OperatorNavigation
    \/ OperatorSelection
    \/ TextObjectOperator
    \/ TextObjectMove
    \/ TextObjectSelect

SpecModes == InitModes /\ [][NextModes]_vars

\* --------------------------------------------------- specification: counts

\* Keys of a session that types counts: the digits, and keys that put the session
\* in Navigation, in a selection and in the operator-pending state.
CountKeys == {"escape", "0", "2", "v", "y", "l"}

CountDocs == {<<"a", "b">>, <<"a", NL, "b">>}

\* A key arrives in a session whose counts have up to MaxCountDigits digits.
CountKeyPress(k) == KeyArrives(k, MaxCountDigits)

InitCount ==
    /\ text \in CountDocs
    /\ cursor_position \in 0..Len(text)
    /\ read_only \in BOOLEAN
    /\ selection_state = NoSelection
    /\ input_mode = "INSERT"
    /\ operator_func = None
    /\ operator_arg = None
    /\ last_character_find = None
    /\ other_cli = None
    /\ clipboard = NoClipboard
    /\ arg = None
    /\ key_buffer = <<>>
    /\ pc = "idle"
    /\ matched = None
    /\ handled = NoHandled
    /\ before_operator = None
    /\ text_object = NoObject
    /\ range = None

NextCount ==
    \/ \E k \in CountKeys : CountKeyPress(k)
    \/ WaitForKey
    \/ Match
    \/ DropKey
    \/ Escape
    \/ YankLines
    \/ StartSelection
    \/ ToggleSelection
    \/ Copy
    \/ OperatorNavigation
    \/ OperatorSelection
    \/ TextObjectOperator
    \/ TextObjectMove
    \/ TextObjectSelect
    \/ Digit

SpecCount == InitCount /\ [][NextCount]_vars

\* ------------------------------------------- specification: whole lines

\* A new session on one of `docs`, the cursor anywhere: ViState starts in
\* INSERT mode with nothing pending.
InitSession(docs, read_onlys) ==
    /\ text \in docs
    /\ cursor_position \in 0..Len(text)
    /\ read_only \in read_onlys
    /\ selection_state = NoSelection
    /\ input_mode = "INSERT"
    /\ operator_func = None
    /\ operator_arg = None
    /\ last_character_find = None
    /\ other_cli = None
    /\ clipboard = NoClipboard
    /\ arg = None
    /\ key_buffer = <<>>
    /\ pc = "idle"
    /\ matched = None
    /\ handled = NoHandled
    /\ before_operator = None
    /\ text_object = NoObject
    /\ range = None

\* Sessions for 'dd' with a count, on documents with empty first, middle and
\* last lines and on a document of five lines.
InitLines ==
    InitSession({<<NL, "b", NL, "c">>, <<"a", NL, NL, "b", NL>>,
                 <<"a", NL, "b", NL, "c", NL, "d", NL, "e">>}, {FALSE})

NextLines ==
    \/ \E k \in {"escape", "d", "2", "3"} : KeyPress(k)
    \/ WaitForKey
    \/ Match
    \/ DropKey
    \/ Escape
    \/ DeleteLines
    \/ OperatorNavigation
    \/ TextObjectOperator
    \/ Digit

SpecLines == InitLines /\ [][NextLines]_vars

\* ------------------------------- specification: operators and motions

\* Sessions for the operators d, c and y applied to the motions w, h, j and
\* to a characters selection, on documents of words on one and two lines.
InitMotions ==
    InitSession({<<"a", " ", "b", NL, "a">>, <<"a", NL, " ", "b">>}, {FALSE})

NextMotions ==
    \/ \E k \in {"escape", "d", "c", "y", "w", "h", "j", "v"} : KeyPress(k)
    \/ WaitForKey
    \/ Match
    \/ DropKey
    \/ Escape
    \/ AutoDown
    \/ ChangeLine
    \/ DeleteLines
    \/ YankLines
    \/ StartSelection
    \/ ToggleSelection
    \/ OperatorNavigation
    \/ OperatorSelection
    \/ TextObjectOperator
    \/ TextObjectMove
    \/ TextObjectSelect

SpecMotions == InitMotions /\ [][NextMotions]_vars

\* ------------------------------------------- text object specification

\* Longest document of the text object specification.
MaxObjectLen == 3

\* The key sequences of the line motions and of the four finds with a character.
LineMotionKeys == {<<"j">>, <<"k">>, <<"{">>, <<"}">>, <<"g", "g">>, <<"G">>}
FindKeys == {<<f, ch>> : f \in {"f", "F", "t", "T"}, ch \in {"a", "b"}}

\* The key sequence a binding is registered under: Keys.Any for the character of
\* a find.
Registered(keys) == IF keys \in FindKeys THEN <<keys[1], "Any">> ELSE keys

\* Every document of letters and newlines, cursor position, count (none or 2)
\* and key sequence of a line motion or a find.
InitObjects ==
    /\ text \in UNION {[1..n -> {"a", "b", NL}] : n \in 0..MaxObjectLen}
    /\ cursor_position \in 0..Len(text)
    /\ arg \in {None, <<"2">>}
    /\ key_buffer \in LineMotionKeys \cup FindKeys
    /\ text_object = None
    /\ range = None
    /\ pc = "object"
    /\ read_only = FALSE
    /\ selection_state = NoSelection
    /\ input_mode = "NAVIGATION"
    /\ operator_func = None
    /\ operator_arg = None
    /\ last_character_find = None
    /\ other_cli = None
    /\ clipboard = NoClipboard
    /\ handled = NoHandled
    /\ before_operator = None
    /\ matched = None

\* A handler of the key sequence asks its text object function for the TextObject.
CallTextObject ==
    /\ pc = "object"
    /\ \E r \in {text_object_func(Registered(key_buffer), Session,
                                  [arg |-> arg, data |-> key_buffer[Len(key_buffer)]])} :
          /\ text_object' = r.obj
          /\ last_character_find' = r.S.last_character_find
    /\ pc' = "objected"
    /\ UNCHANGED <<text, cursor_position, read_only, selection_state, input_mode,
                   operator_func, operator_arg, other_cli, clipboard, arg, key_buffer,
                   handled, matched, before_operator, range>>

\* After a find, a handler of ';' asks for its TextObject from the same document,
\* cursor and count.
CallRepeat ==
    /\ pc = "objected"
    /\ key_buffer \in FindKeys
    /\ text_object' = text_object_func(<<";">>, Session, [arg |-> arg, data |-> ";"]).obj
    /\ pc' = "repeated"
    /\ UNCHANGED <<text, cursor_position, read_only, selection_state, input_mode,
                   operator_func, operator_arg, last_character_find, other_cli,
                   clipboard, arg, key_buffer, handled, matched, before_operator, range>>

NextObjects == CallTextObject \/ CallRepeat

SpecObjects == InitObjects /\ [][NextObjects]_vars

\* --------------------------------------------------- find specification

\* A new session on a document of two lines in which 'b' occurs before and after
\* other characters.
InitFind == InitSession({<<"b", "a", "b", NL, "b">>}, {FALSE})

NextFind ==
    \/ \E k \in {"escape", "y", "f", "F", "t", "T", ";", ",", "b"} : KeyPress(k)
    \/ WaitForKey
    \/ Match
    \/ DropKey
    \/ Escape
    \/ YankLines
    \/ OperatorNavigation
    \/ TextObjectOperator
    \/ TextObjectMove

SpecFind == InitFind /\ [][NextFind]_vars

\* --------------------------------------------------- word specification

\* A new session on a document whose first word is followed by a blank and whose
\* last word ends the line.
InitWords == InitSession({<<"a", "b", " ", "c">>}, {FALSE})

NextWords ==
    \/ \E k \in {"escape", "v", "i", "w", "d"} : KeyPress(k)
    \/ WaitForKey
    \/ Match
    \/ DropKey
    \/ Escape
    \/ Insert
    \/ DeleteLines
    \/ StartSelection
    \/ ToggleSelection
    \/ OperatorNavigation
    \/ OperatorSelection
    \/ TextObjectOperator
    \/ TextObjectMove
    \/ TextObjectSelect

SpecWords == InitWords /\ [][NextWords]_vars

\* ------------------------------------------------ sessions specification

\* event.cli.vi_state: the ViState of the CommandLineInterface the event came
\* from. The handlers are closures of one registry, but they keep no state of
\* their own: `own` is the state of the cli, `shared` one state for the registry.
vi_state_OfRegistry(own, shared) == shared
vi_state(own, shared) == own

\* The ViState of the cli that has the keyboard.
ViState ==
    [input_mode |-> input_mode, operator_func |-> operator_func,
     operator_arg |-> operator_arg, last_character_find |-> last_character_find]

\* The cli that has the keyboard, as it is kept while the other one has it.
CurrentCli(name) ==
    [name |-> name,
     buffer |-> [text |-> text, cursor_position |-> cursor_position,
                 selection_state |-> selection_state],
     vi_state |-> ViState,
     clipboard |-> clipboard,
     arg |-> arg,
     key_buffer |-> key_buffer,
     before_operator |-> before_operator]

\* What the cli without the keyboard holds: its selection and its ViState.
OtherCliState ==
    [selection_state |-> other_cli.buffer.selection_state,
     vi_state |-> vi_state(other_cli.vi_state, ViState)]

\* Two new sessions created with the same registry, the first on a document of
\* one character and the second on an empty one.
InitSessions ==
    /\ text = <<"b">>
    /\ cursor_position = 0
    /\ read_only = FALSE
    /\ selection_state = NoSelection
    /\ input_mode = "INSERT"
    /\ operator_func = None
    /\ operator_arg = None
    /\ last_character_find = None
    /\ clipboard = NoClipboard
    /\ arg = None
    /\ key_buffer = <<>>
    /\ pc = "idle"
    /\ matched = None
    /\ handled = NoHandled
    /\ before_operator = None
    /\ text_object = NoObject
    /\ range = None
    /\ other_cli = [name |-> "second",
                    buffer |-> [text |-> <<>>, cursor_position |-> 0,
                                selection_state |-> NoSelection],
                    vi_state |-> [input_mode |-> "INSERT", operator_func |-> None,
                                  operator_arg |-> None, last_character_find |-> None],
                    clipboard |-> NoClipboard,
                    arg |-> None,
                    key_buffer |-> <<>>,
                    before_operator |-> None]

\* The keyboard goes to the other cli between two key sequences: its event loop
\* feeds its own InputProcessor, whose handlers get events of this cli.
SwitchCli ==
    /\ pc = "idle"
    /\ other_cli # None
    /\ key_buffer = <<>>
    /\ other_cli' = CurrentCli(IF other_cli.name = "second" THEN "first" ELSE "second")
    /\ text' = other_cli.buffer.text
    /\ cursor_position' = other_cli.buffer.cursor_position
    /\ selection_state' = other_cli.buffer.selection_state
    /\ input_mode' = vi_state(other_cli.vi_state, ViState).input_mode
    /\ operator_func' = vi_state(other_cli.vi_state, ViState).operator_func
    /\ operator_arg' = vi_state(other_cli.vi_state, ViState).operator_arg
    /\ last_character_find' = vi_state(other_cli.vi_state, ViState).last_character_find
    /\ clipboard' = other_cli.clipboard
    /\ arg' = other_cli.arg
    /\ key_buffer' = other_cli.key_buffer
    /\ before_operator' = other_cli.before_operator
    /\ UNCHANGED <<read_only, pc, matched, handled, text_object, range>>

NextSessions ==
    \/ \E k \in {"escape", "v", "d", "f"} : KeyPress(k)
    \/ SwitchCli
    \/ WaitForKey
    \/ Match
    \/ DropKey
    \/ Escape
    \/ DeleteLines
    \/ StartSelection
    \/ ToggleSelection
    \/ OperatorNavigation
    \/ OperatorSelection
    \/ TextObjectOperator
    \/ TextObjectMove
    \/ TextObjectSelect

SpecSessions == InitSessions /\ [][NextSessions]_vars

\* ----------------------------------------------- transform specification

\* A new session on a document of letters in both cases, over one or two lines.
InitTransform ==
    InitSession({<<"a", "b", "A">>, <<"a", NL, "b", "a">>}, {FALSE})

NextTransform ==
    \/ \E k \in {"escape", "g", "~", "v", "l", "h"} : KeyPress(k)
    \/ WaitForKey
    \/ Match
    \/ DropKey
    \/ Escape
    \/ StartSelection
    \/ ToggleSelection
    \/ OperatorNavigation
    \/ OperatorSelection
    \/ TextObjectOperator
    \/ TextObjectMove
    \/ TextObjectSelect

SpecTransform == InitTransform /\ [][NextTransform]_vars

\* -------------------------------------------------- indent specification

\* The longest document the indent operator is still started on.
MaxIndentText == 14

\* A new session on a document of three lines, one of them indented.
InitIndent ==
    InitSession({<<"a", NL, " ", " ", " ", " ", "b", NL, "c">>}, {FALSE})

NextIndent ==
    \/ \E k \in {"escape", ">", "<", "j", "2", "V"} :
            (k = ">" => Len(text) <= MaxIndentText) /\ KeyPress(k)
    \/ Match
    \/ DropKey
    \/ Escape
    \/ AutoDown
    \/ Digit
    \/ StartSelection
    \/ ToggleSelection
    \/ OperatorNavigation
    \/ OperatorSelection
    \/ TextObjectOperator
    \/ TextObjectSelect

SpecIndent == InitIndent /\ [][NextIndent]_vars

\* --------------------------------------------------- range specification

\* Characters of the documents of the range specification.
RangeChars == {"a", NL}
RangeDocs == UNION {[1..n -> RangeChars] : n \in 0..MaxLen}

\* Every document, cursor position and TextObject whose two ends lie in the document.
InitRange ==
    /\ text \in RangeDocs
    /\ cursor_position \in 0..Len(text)
    /\ \E s \in -Len(text)..Len(text), e \in -Len(text)..Len(text), ty \in TextObjectType :
          /\ cursor_position + s \in 0..Len(text)
          /\ cursor_position + e \in 0..Len(text)
          /\ text_object = TextObject(s, e, ty)
    /\ range = None
    /\ pc = "range"
    /\ read_only = FALSE
    /\ selection_state = NoSelection
    /\ input_mode = "NAVIGATION"
    /\ operator_func = None
    /\ operator_arg = None
    /\ last_character_find = None
    /\ other_cli = None
    /\ clipboard = NoClipboard
    /\ arg = None
    /\ key_buffer = <<>>
    /\ handled = NoHandled
    /\ before_operator = None
    /\ matched = None

\* An operator asks the TextObject for its range.
CallOperatorRange ==
    /\ pc = "range"
    /\ range' = operator_range(text_object, text, cursor_position)
    /\ pc' = "ranged"
    /\ UNCHANGED <<text, cursor_position, read_only, selection_state, input_mode,
                   operator_func, operator_arg, last_character_find, other_cli,
                   clipboard, arg, key_buffer, handled,
                   matched, before_operator, text_object>>

NextRange == CallOperatorRange

SpecRange == InitRange /\ [][NextRange]_vars

\* ------------------------------- bracket and percentage specification

\* Characters of the documents of the bracket and percentage specification.
PercentChars == {"(", ")", NL}
PercentDocs == UNION {[1..n -> PercentChars] : n \in 0..MaxPercentLen}

\* Counts typed before '%': none, 2, 20, 100 and 200.
PercentArgs == {None, <<"2">>, <<"2", "0">>, <<"1", "0", "0">>, <<"2", "0", "0">>}

\* Every document, cursor position and count.
InitPercent ==
    /\ text \in PercentDocs
    /\ cursor_position \in 0..Len(text)
    /\ arg \in PercentArgs
    /\ text_object = None
    /\ range = None
    /\ pc = "percent"
    /\ read_only = FALSE
    /\ selection_state = NoSelection
    /\ input_mode = "NAVIGATION"
    /\ operator_func = None
    /\ operator_arg = None
    /\ last_character_find = None
    /\ other_cli = None
    /\ clipboard = NoClipboard
    /\ key_buffer = <<>>
    /\ handled = NoHandled
    /\ before_operator = None
    /\ matched = None

\* A handler of the '%' bindings asks the text object function for its TextObject.
CallPercent ==
    /\ pc = "percent"
    /\ text_object' = text_object_func(<<"%">>, Session, [arg |-> arg, data |-> "%"]).obj
    /\ pc' = "percented"
    /\ UNCHANGED <<text, cursor_position, read_only, selection_state, input_mode,
                   operator_func, operator_arg, last_character_find, other_cli,
                   clipboard, arg, key_buffer, handled,
                   matched, before_operator, range>>

NextPercent == CallPercent

SpecPercent == InitPercent /\ [][NextPercent]_vars

\* ------------------------------------------------------- claims C1 .. C5

\* The two ends of the TextObject under test, lowest first (min and max).
LowEnd == Min(text_object.start, text_object.end)
HighEnd == Max(text_object.start, text_object.end)

\* The absolute offset i is column 0 of its line.
AtColumn0(i) == i = 0 \/ text[i] = NL

\* No newline among the characters at offsets lo .. hi-1.
NoNewlineIn(lo, hi) == \A i \in (lo + 1)..hi : text[i] # NL

C2_InclusiveRange ==
    (pc = "ranged" /\ text_object.type = INCLUSIVE) =>
        range = <<LowEnd, HighEnd + 1>>

\* C2 witness: an Inclusive object ending at column 0 got its end character included.
C2_Witness ==
    /\ pc = "ranged"
    /\ text_object.type = INCLUSIVE
    /\ AtColumn0(cursor_position + HighEnd)
    /\ LowEnd < HighEnd
    /\ range = <<LowEnd, HighEnd + 1>>

\* C3: for a Linewise TextObject the returned start is column 0 of the line holding
\* cursor + min and the returned end is just after the last character of the line
\* holding cursor + max.
C3_LinewiseRange ==
    (pc = "ranged" /\ text_object.type = LINEWISE) =>
        LET s == range[1] + cursor_position
            e == range[2] + cursor_position
        IN  /\ s \in 0..(cursor_position + LowEnd)
            /\ AtColumn0(s)
            /\ NoNewlineIn(s, cursor_position + LowEnd)
            /\ e \in (cursor_position + HighEnd)..Len(text)
            /\ (e = Len(text) \/ text[e + 1] = NL)
            /\ NoNewlineIn(cursor_position + HighEnd, e)

\* C3 witness: a Linewise object over two lines, both ends in mid-line, was widened
\* at both ends.
C3_Witness ==
    /\ pc = "ranged"
    /\ text_object.type = LINEWISE
    /\ ~NoNewlineIn(cursor_position + LowEnd, cursor_position + HighEnd)
    /\ range[1] < LowEnd
    /\ range[2] > HighEnd

\* C4: the pair (s, e) operator_range returns satisfies s <= e.
C4_RangeOrdered ==
    pc = "ranged" => range[1] <= range[2]

CallingWithOperator == pc = "call" /\ operator_func # None

\* The dispatched key sequence is a count digit: 1-9, or 0 with a count in progress.
IsCountDigit == KeySequence = <<"2">> \/ (KeySequence = <<"0">> /\ arg # None)

\* C6: whenever a key sequence that is not a count digit is dispatched while an
\* operator is pending, no operator is pending once its handler has returned.
C6_PendingOperatorEnds ==
    [][(CallingWithOperator /\ ~IsCountDigit) => operator_func' = None]_vars

\* C7: dispatching escape, in any state, leaves Mode = Navigation, no selection
\* and no pending operator (operator_func and operator_arg both absent).
C7_EscapeClearsAll ==
    [][(pc = "call" /\ KeySequence = <<"escape">>)
        => /\ input_mode' = "NAVIGATION"
           /\ selection_state' = None
           /\ operator_func' = None
           /\ operator_arg' = None]_vars

\* C8: when a registered text-object key sequence is dispatched while an operator
\* is pending (and the key is not a count digit), the pending operator is called
\* exactly once, with the TextObject the text-object function returns, and
\* afterwards operator_func and operator_arg are both absent.
C8_TextObjectRunsOperator ==
    [][(/\ CallingWithOperator
        /\ KeySequence \in TextObjectKeys \ {<<"Any">>}
        /\ ~IsCountDigit)
        => /\ handled'.calls =
                <<[op |-> operator_func,
                   obj |-> text_object_func(KeySequence, Session, Event).obj]>>
           /\ operator_func' = None
           /\ operator_arg' = None]_vars

\* C9: after an operator key pressed in Navigation with no operator pending, a
\* key sequence bound to no text object (and not a count digit) leaves Mode,
\* Selection, the count, the text and the cursor as they were before the operator
\* key, leaves no operator pending and rings the bell exactly once.
C9_UnknownKeyRoundTrip ==
    [][(/\ pc = "call"
        /\ before_operator # None
        /\ KeySequence \notin TextObjectKeys
        /\ ~IsCountDigit)
        => /\ input_mode' = before_operator.input_mode
           /\ selection_state' = before_operator.selection_state
           /\ arg' = before_operator.arg
           /\ text' = before_operator.text
           /\ cursor_position' = before_operator.cursor_position
           /\ operator_func' = None
           /\ operator_arg' = None
           /\ handled'.bell = 1]_vars

C11_FiltersExclusive ==
    \A i \in DOMAIN Bindings :
        FilterHolds(Bindings[i].filter)
        => \A j \in (i + 1)..Len(Bindings) :
              Bindings[j].keys = Bindings[i].keys => ~FilterHolds(Bindings[j].filter)

\* C12: while the buffer is read-only, no handler call changes the stored mode to
\* Insert or to Replace.
C12_ReadOnlyKeepsMode ==
    [][(pc = "call" /\ read_only /\ input_mode' \in {"INSERT", "REPLACE"})
        => input_mode' = input_mode]_vars

\* C13: exactly one of navigation_mode, insert_mode, replace_mode and
\* selection_mode holds; it is navigation_mode on a read-only buffer with no
\* selection and selection_mode whenever a selection is active.
C13_OneDispatchMode ==
    /\ Cardinality({f \in {"navigation_mode", "insert_mode", "replace_mode",
                           "selection_mode"} : FilterAtom(f)}) = 1
    /\ (read_only /\ selection_state = None) => navigation_mode
    /\ selection_state # None => selection_mode

\* A read-only buffer whose stored mode is Replace dispatches as Navigation.
C13_Witness ==
    /\ read_only
    /\ input_mode = "REPLACE"
    /\ selection_state = None
    /\ navigation_mode
    /\ pc = "idle"

\* C14: a dispatch of escape from stored mode Insert or Replace moves the cursor
\* one position left unless it is at column 0, one from stored mode Navigation
\* leaves the cursor in place; the stored mode becomes Navigation and the
\* selection is cleared.
C14_EscapeCursor ==
    [][(pc = "call" /\ KeySequence = <<"escape">>)
        => /\ cursor_position' =
                IF input_mode \in {"INSERT", "REPLACE"}
                   /\ cursor_position_col(text, cursor_position) # 0
                THEN cursor_position - 1
                ELSE cursor_position
           /\ input_mode' = "NAVIGATION"
           /\ selection_state' = None]_vars

\* Escape is being dispatched in Replace mode with the cursor past column 0.
C14_Witness ==
    /\ pc = "call"
    /\ KeySequence = <<"escape">>
    /\ input_mode = "REPLACE"
    /\ ~read_only
    /\ cursor_position_col(text, cursor_position) > 0

\* The selection type of a selection key.
SelectionKeyType(keys) ==
    CASE keys = <<"v">> -> CHARACTERS [] keys = <<"V">> -> LINES [] keys = <<"c-v">> -> BLOCK

\* C15: a selection key dispatched in Navigation with no selection starts a
\* selection of its type anchored at the cursor; with a selection of its own type
\* it ends the selection; with a selection of another type it changes the type
\* only, the anchor and the cursor stay.
C15_SelectionKeys ==
    [][(/\ pc = "call"
        /\ KeySequence \in {<<"v">>, <<"V">>, <<"c-v">>}
        /\ (navigation_mode \/ selection_mode))
        => IF selection_state = None
           THEN selection_state' = [type |-> SelectionKeyType(KeySequence),
                                    original_cursor_position |-> cursor_position]
           ELSE IF selection_state.type = SelectionKeyType(KeySequence)
           THEN selection_state' = None
           ELSE /\ selection_state' =
                     [type |-> SelectionKeyType(KeySequence),
                      original_cursor_position |-> selection_state.original_cursor_position]
                /\ cursor_position' = cursor_position]_vars

\* A block selection with the anchor away from the cursor is being turned into a
\* lines selection.
C15_Witness ==
    /\ pc = "call"
    /\ KeySequence = <<"V">>
    /\ selection_state # None
    /\ selection_state.type = BLOCK
    /\ selection_state.original_cursor_position # cursor_position

\* C16: after every handler call and its hook, in effective Navigation mode on a
\* non-empty line the cursor is not after the last character of the line.
C16_CursorOnLine ==
    [][pc = "call"
        => ~(/\ navigation_mode'
             /\ current_line_length(text', cursor_position') > 0
             /\ is_cursor_at_the_end_of_line(text', cursor_position'))]_vars

WithoutRows(t, lo, hi) ==
    JoinLines(t, 0, lo)
    \o (IF lo > 0 /\ hi < line_count(t) - 1 THEN <<NL>> ELSE <<>>)
    \o JoinLines(t, hi + 1, line_count(t))

\* C19: the delete operator key dispatched on a Lines selection from row a to
\* row b (no operator pending) removes exactly the rows min(a,b)..max(a,b) with
\* their line terminators and leaves no selection.
C19_DeleteSelectedLines ==
    [][(/\ pc = "call"
        /\ KeySequence = <<"d">>
        /\ selection_state # None
        /\ selection_state.type = LINES
        /\ ~operator_given)
        => /\ text' =
                WithoutRows(text,
                    Min(cursor_position_row(text, selection_state.original_cursor_position),
                        cursor_position_row(text, cursor_position)),
                    Max(cursor_position_row(text, selection_state.original_cursor_position),
                        cursor_position_row(text, cursor_position)))
           /\ selection_state' = None]_vars

\* The delete operator is being dispatched on a Lines selection of the last two
\* rows of a three-line document, made upwards.
C19_Witness ==
    /\ pc = "call"
    /\ KeySequence = <<"d">>
    /\ ~operator_given
    /\ selection_state # None
    /\ selection_state.type = LINES
    /\ line_count(text) = 3
    /\ cursor_position_row(text, selection_state.original_cursor_position) = 2
    /\ cursor_position_row(text, cursor_position) = 1

\* The TextObject of the text-object key sequence being dispatched.
DispatchedObject == text_object_func(KeySequence, Session, Event).obj

C30_PercentInclusive ==
    (/\ pc = "percented"
     /\ \/ arg = None /\ find_matching_bracket_position(text, cursor_position) # 0
        \/ arg # None /\ int(arg) \in 1..100)
    => text_object.type = INCLUSIVE

\* C30 amended: a matching bracket gives an Inclusive TextObject to the bracket,
\* a count between 1 and 100 gives a Linewise TextObject to column 0 of the row
\* at that percentage of the file.
C30_PercentLinewise ==
    pc = "percented"
    => /\ (arg = None /\ find_matching_bracket_position(text, cursor_position) # 0)
          => /\ text_object.type = INCLUSIVE
             /\ text_object.start = find_matching_bracket_position(text, cursor_position)
       /\ (arg # None /\ int(arg) \in 1..100)
          => /\ text_object.type = LINEWISE
             /\ cursor_position + text_object.start
                  = line_start(text, (int(arg) * line_count(text) - 1) \div 100)

\* '%' was called with count 100 on a document of three lines, and the row it
\* resolves is not the cursor's.
C30_Witness ==
    /\ pc = "percented"
    /\ arg = <<"1", "0", "0">>
    /\ line_count(text) = 3
    /\ text_object.type = LINEWISE
    /\ text_object.start # 0

\* The command dd is being dispatched on an editable buffer.
CallingDeleteLines == pc = "call" /\ KeySequence = <<"d", "d">> /\ ~read_only

\* The last row that dd with the count of the event removes.
LastDeletedRow ==
    Min(cursor_position_row(text, cursor_position) + EventArg(Event), line_count(text)) - 1

\* The rows from_row..to_row of t, each followed by a newline.
RECURSIVE TerminatedLines(_, _, _)
TerminatedLines(t, from_row, to_row) ==
    IF from_row > to_row THEN <<>>
    ELSE JoinLines(t, from_row, from_row + 1) \o <<NL>>
         \o TerminatedLines(t, from_row + 1, to_row)

\* C27: on every buffer, also with empty lines before or after the cursor line,
\* dd with count n at row r removes exactly the lines r..min(r+n, line count)-1;
\* the remaining lines are unchanged, in order and separated by newlines.
C27_DeleteLinesExact ==
    [][CallingDeleteLines
        => text' = WithoutRows(text, cursor_position_row(text, cursor_position),
                               LastDeletedRow)]_vars

\* C28: after dd with count n the clipboard holds the removed lines, each
\* followed by its newline, tagged Lines.
C28_ClipboardTerminated ==
    [][CallingDeleteLines
        => clipboard' =
             ClipboardData(TerminatedLines(text, cursor_position_row(text, cursor_position),
                                           LastDeletedRow), LINES)]_vars

\* C28 amended: after dd with count n the clipboard holds the removed lines
\* joined by newlines, with no newline after the last one, tagged Lines.
C28_ClipboardJoined ==
    [][CallingDeleteLines
        => clipboard' =
             ClipboardData(JoinLines(text, cursor_position_row(text, cursor_position),
                                     LastDeletedRow + 1), LINES)]_vars

\* dd with count 3 is being dispatched on the second row of five lines.
C28_Witness ==
    /\ CallingDeleteLines
    /\ arg = <<"3">>
    /\ line_count(text) = 5
    /\ cursor_position_row(text, cursor_position) = 1

\* The handler being called calls the operator `op` once (and no other).
OperatorCalled(op) ==
    pc = "call" /\ Len(handled'.calls) = 1 /\ handled'.calls[1].op = op

\* The TextObject the operator is called with, and the absolute ends of the
\* span operator_range computes for it.
CalledObject == handled'.calls[1].obj
SpanStart == cursor_position + operator_range(CalledObject, text, cursor_position)[1]
SpanEnd == cursor_position + operator_range(CalledObject, text, cursor_position)[2]

\* The characters of the span (none when the pair is empty or inverted).
SpanText == IF SpanStart < SpanEnd THEN Slice(text, SpanStart, SpanEnd) ELSE <<>>

\* The text without the characters of the span.
WithoutSpan ==
    IF SpanStart < SpanEnd
    THEN Slice(text, 0, SpanStart) \o Slice(text, SpanEnd, Len(text))
    ELSE text

\* The text without the span and without one line terminator: the one after the
\* span, or the one before it when none follows.
WithoutSpanAndTerminator ==
    IF SpanEnd < Len(text)
    THEN Slice(text, 0, SpanStart) \o Slice(text, SpanEnd + 1, Len(text))
    ELSE Slice(text, 0, Max(0, SpanStart - 1))

\* What the clipboard holds after the span was stored, or left alone when the
\* span has no characters.
ClipboardWithSpan ==
    IF SpanText # <<>>
    THEN ClipboardData(SpanText, IF CalledObject.type = LINEWISE THEN LINES ELSE CHARACTERS)
    ELSE clipboard

C22_DeleteRemovesSpan ==
    [][OperatorCalled(<<"d">>)
        => /\ text' = IF CalledObject.type = LINEWISE
                      THEN WithoutSpanAndTerminator ELSE WithoutSpan
           /\ clipboard' = ClipboardWithSpan]_vars

\* C23: for every TextObject the change operator leaves the text and the
\* clipboard as the delete operator leaves them from the same state, and the
\* stored mode is Insert.
C23_ChangeAsDelete ==
    [][OperatorCalled(<<"c">>)
        => /\ text' = delete_operator(TRUE, Session, CalledObject).text
           /\ clipboard' = delete_operator(TRUE, Session, CalledObject).clipboard
           /\ input_mode' = "INSERT"]_vars

\* C23 amended: the clipboard is the one delete leaves and the stored mode is
\* Insert; the text is the one delete leaves for an Exclusive or Inclusive
\* object, and for a Linewise object the text without the span, every line
\* terminator kept.
C23_ChangeKeepsTerminator ==
    [][OperatorCalled(<<"c">>)
        => /\ text' = IF CalledObject.type = LINEWISE
                      THEN WithoutSpan
                      ELSE delete_operator(TRUE, Session, CalledObject).text
           /\ clipboard' = delete_operator(TRUE, Session, CalledObject).clipboard
           /\ input_mode' = "INSERT"]_vars

\* The change operator is being applied to the motion j on the first of two
\* lines.
C23_Witness ==
    /\ pc = "call"
    /\ KeySequence = <<"j">>
    /\ operator_func = <<"c">>
    /\ line_count(text) = 2
    /\ cursor_position_row(text, cursor_position) = 0
    /\ current_line_length(text, cursor_position) > 0

\* C24: the yank operator leaves the text and the cursor unchanged; with a
\* non-empty span it stores exactly the characters of the span, tagged Lines for
\* a Linewise object and Characters otherwise; with an empty span it leaves the
\* clipboard unchanged.
C24_YankCopiesSpan ==
    [][OperatorCalled(<<"y">>)
        => /\ text' = text
           /\ cursor_position' = cursor_position
           /\ clipboard' = ClipboardWithSpan]_vars

\* C29: d followed by w, when the next word begins k > 0 characters after the
\* cursor on the same line, removes exactly the k characters from the cursor on,
\* leaves the cursor where it was, and stores the k characters tagged Characters.
C29_DeleteWord ==
    [][(/\ pc = "call"
        /\ KeySequence = <<"w">>
        /\ operator_func = <<"d">>
        /\ selection_state = None
        /\ arg = None
        /\ find_next_word_beginning(text, cursor_position, 1) # None
        /\ \A i \in 1..find_next_word_beginning(text, cursor_position, 1)[1] :
              text[cursor_position + i] # NL)
        => \E k \in {find_next_word_beginning(text, cursor_position, 1)[1]} :
              /\ k > 0
              /\ text' = Slice(text, 0, cursor_position)
                         \o Slice(text, cursor_position + k, Len(text))
              /\ cursor_position' = cursor_position
              /\ clipboard' = ClipboardData(Slice(text, cursor_position, cursor_position + k),
                                            CHARACTERS)]_vars

\* d is pending and w is being dispatched on "a b" with the cursor on the
\* first word.
C29_Witness ==
    /\ pc = "call"
    /\ KeySequence = <<"w">>
    /\ operator_func = <<"d">>
    /\ selection_state = None
    /\ arg = None
    /\ cursor_position = 0
    /\ Slice(text, 0, 3) = <<"a", " ", "b">>

\* C25: a case-transform operator maps every character of the span of
\* operator_range and no other character, and leaves the cursor at the end of
\* the transformed span (on or just after its last character), for forward and
\* backward motions, two-ended objects and selections alike.
C25_TransformCursorAtEnd ==
    [][(OperatorCalled(<<"g", "~">>) /\ SpanStart < SpanEnd)
        => /\ text' = [i \in 1..Len(text) |->
                          IF i > SpanStart /\ i <= SpanEnd THEN SwapCase(text[i])
                          ELSE text[i]]
           /\ cursor_position' \in {SpanEnd - 1, SpanEnd}]_vars

\* The repeat count of the command being run: the count given to the pending
\* operator times the count of the key sequence that completes it.
CommandCount ==
    (IF operator_func # None THEN operator_arg[1] ELSE 1) * EventArg(Event)

\* C26: indent and unindent shift exactly the lines from the row of the range
\* start through the row of the range end, each by as many indent units as the
\* repeat count of the command, and no other line.
C26_IndentByCount ==
    [][\A op \in {<<">">>, <<"<">>} :
          OperatorCalled(op)
          => text' = transform_lines(text, 0,
                                     translate_index_to_position(text, SpanStart)[1],
                                     translate_index_to_position(text, SpanEnd)[1] + 1,
                                     CommandCount, op = <<">">>)]_vars

\* --------------------------------------------- claims about the motions

\* C31: each of the motions j, k, {, }, gg and G returns a Linewise TextObject
\* for every document, cursor position and count.
C31_LineMotionsLinewise ==
    (pc = "objected" /\ key_buffer \in LineMotionKeys) => text_object.type = LINEWISE

\* C31 amended: j, k, gg and G return a Linewise TextObject for every document,
\* cursor position and count; { and } return an Exclusive one.
C31_ParagraphsExclusive ==
    (pc = "objected" /\ key_buffer \in LineMotionKeys)
    => text_object.type = IF key_buffer \in {<<"{">>, <<"}">>} THEN EXCLUSIVE ELSE LINEWISE

\* gg was called with count 2 from the first of two lines: it resolves the start
\* of the second line.
C31_Witness ==
    /\ pc = "objected"
    /\ key_buffer = <<"g", "g">>
    /\ arg = <<"2">>
    /\ cursor_position = 0
    /\ text_object.start > 0
    /\ text_object.type = LINEWISE

\* C33: ';' pressed after a find command with a character resolves, from the
\* same document and cursor, the TextObject that find command resolves: the same
\* start, end and kind.
C33_RepeatAsFind ==
    [][(pc = "objected" /\ key_buffer \in FindKeys) => text_object' = text_object]_vars

\* A handler of the find command `key` followed by a character is being called.
CallingFind(key) == pc = "call" /\ ChosenBinding.param = <<key, "Any">>

\* C32: each of f, F, t, T followed by a character c sets the find memory to
\* (c, backwards), backwards false for f and t and true for F and T, whether or
\* not c is found; ';' and ',' leave the memory as it is, ';' searches in the
\* remembered direction and ',' in the opposite one.
C32_FindMemory ==
    [][/\ \A key \in {"f", "F", "t", "T"} :
            CallingFind(key)
            => last_character_find' = CharacterFind(Event.data, key \in {"F", "T"})
       /\ \A key \in {";", ","} :
            (pc = "call" /\ KeySequence = <<key>>)
            => /\ last_character_find' = last_character_find
               /\ last_character_find # None
                  => DispatchedObject.start =
                        LET back == (last_character_find.backwards = (key = ";"))
                            pos == IF back
                                   THEN find_backwards(text, cursor_position,
                                            last_character_find.character, EventArg(Event))
                                   ELSE find(text, cursor_position,
                                            last_character_find.character, EventArg(Event))
                        IN  IF pos = None THEN 0 ELSE pos[1]]_vars

\* ',' is being dispatched after a forward find of a character that also occurs
\* before the cursor on its line.
C32_Witness ==
    /\ pc = "call"
    /\ KeySequence = <<",">>
    /\ last_character_find # None
    /\ ~last_character_find.backwards
    /\ DispatchedObject.start < 0

\* A handler of a character find, a find repeat, the matching bracket or
\* cursor-left is being called and its text object function finds nothing: it
\* returns TextObject(0).
NothingFound ==
    /\ pc = "call"
    /\ ChosenBinding.handler \in {"text_object_operator", "text_object_move"}
    /\ ChosenBinding.param \in {<<"f", "Any">>, <<"F", "Any">>, <<"t", "Any">>,
                                <<"T", "Any">>, <<";">>, <<",">>, <<"%">>, <<"h">>}
    /\ text_object_func(ChosenBinding.param, Session, Event).obj = NoObject

\* C34: when a motion finds nothing, at every cursor position: as a plain motion
\* the cursor does not move; under a pending delete or yank operator the span of
\* operator_range is empty and the text and the clipboard are unchanged.
C34_NothingFoundNoEffect ==
    [][NothingFound
        => /\ ~operator_given => cursor_position' = cursor_position
           /\ operator_func \in {<<"d">>, <<"y">>}
              => /\ operator_range(NoObject, text, cursor_position)[1]
                      = operator_range(NoObject, text, cursor_position)[2]
                 /\ text' = text
                 /\ clipboard' = clipboard]_vars

\* C37: with c or d pending and no count in progress, 0 resolves to the hard
\* start-of-line text object: the operator is applied to the span from column 0
\* of the current line to the cursor, and afterwards no operator is pending.
C37_ZeroUnderOperator ==
    [][(/\ pc = "call"
        /\ KeySequence = <<"0">>
        /\ operator_func \in {<<"c">>, <<"d">>}
        /\ arg = None)
        => /\ handled'.calls =
                <<[op |-> operator_func,
                   obj |-> TextObject(get_start_of_line_position(text, cursor_position),
                                      0, EXCLUSIVE)]>>
           /\ text' = Slice(text, 0, line_start(text, cursor_position_row(text,
                                                                          cursor_position)))
                      \o Slice(text, cursor_position, Len(text))
           /\ operator_func' = None]_vars

\* C36: the count captured in operator_arg is never read. The operator key only
\* stores it and resets the count in progress; and for every operator and every
\* text object that follows, text, cursor, clipboard and mode come out the same
\* for every value of the count typed before the operator key.
C36_OperatorArgUnread ==
    [][/\ Dispatch("operator_navigation")
          => /\ arg' = None
             /\ UNCHANGED <<text, cursor_position, clipboard, input_mode>>
       /\ (Dispatch("text_object_operator") /\ operator_given)
          => \A n \in {1, 2, 3, 20} :
             \E S \in {[Session EXCEPT !.operator_arg = <<n>>]} :
             \E R \in {text_object_operator(ChosenBinding.param, S, Event)} :
             \E F \in {IF R.raised THEN R ELSE check_cursor_position(R)} :
                /\ text' = F.text
                /\ cursor_position' = F.cursor_position
                /\ clipboard' = F.clipboard
                /\ input_mode' = F.input_mode]_vars

\* y was pressed after the count 2 and l is being dispatched with a character to
\* the right of the cursor.
C36_Witness ==
    /\ pc = "call"
    /\ ChosenBinding.handler = "text_object_operator"
    /\ KeySequence = <<"l">>
    /\ operator_func = <<"y">>
    /\ operator_arg = <<2>>
    /\ DispatchedObject.start > 0

\* The session in which the operator `op` is pending before the text object
\* being dispatched, from the same document and cursor.
OperatorPending(op) ==
    [Session EXCEPT !.selection_state = None, !.operator_func = op, !.operator_arg = <<1>>]

\* C38: for a two-ended text object with a non-empty range, applying it inside a
\* Characters selection and then pressing an operator edits exactly the
\* characters that the operator pressed in Navigation followed by the text
\* object edits: d and c leave the same text, y the same clipboard.
C38_SelectionAsOperator ==
    (/\ pc = "call"
     /\ ChosenBinding.handler = "text_object_select"
     /\ KeySequence = <<"i", "w">>
     /\ selection_state.type = CHARACTERS
     /\ DispatchedObject.start < DispatchedObject.end)
    => \E selected \in {text_object_select(ChosenBinding.param, Session, Event)} :
       \E hooked \in {check_cursor_position(selected)} :
       \A op \in {<<"d">>, <<"c">>, <<"y">>} :
       \E pending \in {OperatorPending(op)} :
       \E R1 \in {operator_selection(op, hooked, [arg |-> None, data |-> op[1]])} :
       \E R2 \in {text_object_operator(ChosenBinding.param, pending, Event)} :
          IF op = <<"y">> THEN R1.clipboard = R2.clipboard ELSE R1.text = R2.text

\* C39: in every reachable state operator_func is absent if and only if
\* operator_arg is absent; operator_func only changes from absent to an
\* operator, by an operator key in Navigation, or from an operator to absent, by
\* the operator-pending text-object handler; it is never replaced by another
\* operator.
C39_OperatorPendingPair ==
    [][/\ (operator_func = None) <=> (operator_arg = None)
       /\ (operator_func' = None) <=> (operator_arg' = None)
       /\ operator_func' # operator_func
          => \/ /\ operator_func = None
                /\ Dispatch("operator_navigation")
                /\ navigation_mode
                /\ operator_func' = KeySequence
             \/ /\ operator_func' = None
                /\ Dispatch("text_object_operator")]_vars

\* A text object is being dispatched to the operator d that was pressed after
\* the count 2.
C39_Witness ==
    /\ Dispatch("text_object_operator")
    /\ operator_func = <<"d">>
    /\ operator_arg = <<2>>
    /\ KeySequence = <<"l">>

\* C35: with two sessions that share one registry, a step of the session that has
\* the keyboard leaves the other session's selection, mode, pending operator,
\* operator count and character-find memory as they were.
C35_SessionsIndependent ==
    [][other_cli'.name = other_cli.name => OtherCliState' = OtherCliState]_vars

\* The second session has an operator pending with its count, while the first
\* one, which got its keys before, holds a selection and a find memory.
C35_Witness ==
    /\ pc = "idle"
    /\ other_cli.name = "first"
    /\ operator_func = <<"d">>
    /\ operator_arg # None
    /\ last_character_find = None
    /\ selection_state = NoSelection
    /\ other_cli.buffer.selection_state # NoSelection
    /\ other_cli.vi_state.operator_func = None
    /\ other_cli.vi_state.last_character_find # None
====
